---- MODULE Spec2Model ----
(***************************************************************************)
(* A model of the NEET rank-predictor analytics pipeline:                  *)
(*   DataProcessor (src/src/data/data_processor.py),                       *)
(*   PerformanceAnalyzer (src/src/analysis/performance.py),                *)
(*   InsightGenerator (src/src/analysis/insights.py).                      *)
(* Every component is stateless; an operation is a call whose argument is  *)
(* drawn from a bounded set and whose outcome (a returned value or a       *)
(* raised exception) is recorded in the state.                             *)
(***************************************************************************)
EXTENDS Integers, Sequences, FiniteSets, TLC

VARIABLES
    op,         \* the operation that ran last ("idle" before the first call)
    arg,        \* the argument it was called with
    result,     \* its outcome: a returned value or a raised exception
    stdout,     \* the lines it printed
    caller_list, \* the caller's list of quizzes as the call left it
    earlier,    \* the outcome of the call before it on the same list, if any
    predictors  \* the RankPredictor instances: is_trained and the model

vars == <<op, arg, result, stdout, caller_list, earlier, predictors>>

(***************************************************************************)
(* Python values.  A call either returns a value or raises an exception.   *)
(***************************************************************************)
Return(v) == [ok |-> TRUE, value |-> v]
Raise(e, m) == [ok |-> FALSE, exc |-> e, msg |-> m]

(***************************************************************************)
(* Python float: IEEE-754 binary64.  A finite double is a sign and a       *)
(* magnitude; the magnitude is held exactly as a fixed-point number of     *)
(* NLimbs limbs of LimbBits bits, most significant limb first, the first   *)
(* limb being the integer part.  Every operation computes the exact        *)
(* result and rounds it to MantBits significant bits, ties to even.        *)
(***************************************************************************)
MantBits == 53
LimbBits == 8 * 3
Base == 2^LimbBits
NLimbs == 1 + 5
Limbs == 1..NLimbs

MagZero == [i \in Limbs |-> 0]
MagOfInt(n) == [i \in Limbs |-> IF i = 1 THEN n ELSE 0]

MagAdd(a, b) ==
    LET c[i \in 1..(NLimbs + 1)] ==
            IF i = NLimbs + 1 THEN 0 ELSE (a[i] + b[i] + c[i + 1]) \div Base
    IN  [i \in Limbs |-> (a[i] + b[i] + c[i + 1]) % Base]

\* a - b for a >= b
MagSub(a, b) ==
    LET w[i \in 1..(NLimbs + 1)] ==
            IF i = NLimbs + 1 THEN 0
            ELSE IF a[i] - b[i] - w[i + 1] < 0 THEN 1 ELSE 0
    IN  [i \in Limbs |-> (a[i] - b[i] - w[i + 1] + Base) % Base]

\* -1, 0, 1 as a < b, a = b, a > b
MagCmp(a, b) ==
    LET d == {i \in Limbs : a[i] # b[i]}
    IN  IF d = {} THEN 0
        ELSE LET i == CHOOSE j \in d : \A k \in d : j <= k
             IN  IF a[i] < b[i] THEN -1 ELSE 1

\* floor(a / n) and whether a remainder was dropped, for 0 < n <= 100
MagDivSmall(a, n) ==
    LET r[i \in 0..NLimbs] ==
            IF i = 0 THEN 0 ELSE (r[i - 1] * Base + a[i]) % n
    IN  [q |-> [i \in Limbs |-> (r[i - 1] * Base + a[i]) \div n],
         sticky |-> r[NLimbs] # 0]

\* a * n for 0 <= n <= 100
MagMulSmall(a, n) ==
    LET c[i \in 1..(NLimbs + 1)] ==
            IF i = NLimbs + 1 THEN 0 ELSE (a[i] * n + c[i + 1]) \div Base
    IN  [i \in Limbs |-> (a[i] * n + c[i + 1]) % Base]

Pow2(k) == 2^k

\* Bit p of a magnitude, p = 0 being the least significant bit.
LimbOf(p) == NLimbs - (p \div LimbBits)
BitIn(p) == p % LimbBits
Bit(a, p) == (a[LimbOf(p)] \div Pow2(BitIn(p))) % 2
RECURSIVE BitLength(_)
BitLength(n) == IF n = 0 THEN 0 ELSE 1 + BitLength(n \div 2)
Msb(a) ==
    LET i == CHOOSE j \in Limbs : a[j] # 0 /\ \A k \in 1..(j - 1) : a[k] = 0
    IN  (NLimbs - i) * LimbBits + BitLength(a[i]) - 1
LowNonzero(a, p) ==
    \/ a[LimbOf(p)] % Pow2(BitIn(p)) # 0
    \/ \E i \in Limbs : i > LimbOf(p) /\ a[i] # 0
ClearBelow(a, p) ==
    [i \in Limbs |-> IF i < LimbOf(p) THEN a[i]
                     ELSE IF i = LimbOf(p) THEN a[i] - (a[i] % Pow2(BitIn(p)))
                     ELSE 0]
Pow2Mag(p) == [i \in Limbs |-> IF i = LimbOf(p) THEN Pow2(BitIn(p)) ELSE 0]

\* Round to nearest, ties to even, at MantBits significant bits.
RoundMag(a, sticky) ==
    IF a = MagZero THEN a
    ELSE LET p == Msb(a)
         IN  IF p < MantBits THEN a
             ELSE LET d == p - (MantBits - 1)
                      up == /\ Bit(a, d - 1) = 1
                            /\ (LowNonzero(a, d - 1) \/ sticky \/ Bit(a, d) = 1)
                      t == ClearBelow(a, d)
                  IN  IF up THEN MagAdd(t, Pow2Mag(d)) ELSE t

Float(neg, mag) == [neg |-> neg /\ mag # MagZero, mag |-> mag]
FloatOfInt(n) == IF n < 0 THEN Float(TRUE, MagOfInt(-n)) ELSE Float(FALSE, MagOfInt(n))
FZero == FloatOfInt(0)

FAdd(x, y) ==
    IF x.neg = y.neg
    THEN Float(x.neg, RoundMag(MagAdd(x.mag, y.mag), FALSE))
    ELSE LET c == MagCmp(x.mag, y.mag)
         IN  IF c = 0 THEN FZero
             ELSE IF c > 0 THEN Float(x.neg, RoundMag(MagSub(x.mag, y.mag), FALSE))
             ELSE Float(y.neg, RoundMag(MagSub(y.mag, x.mag), FALSE))

FNeg(x) == Float(~x.neg, x.mag)
FSub(x, y) == FAdd(x, FNeg(y))

\* x / n for an int n > 0 (the int converts exactly)
FDivInt(x, n) ==
    LET d == MagDivSmall(x.mag, n)
    IN  Float(x.neg, RoundMag(d.q, d.sticky))

\* x * n for an int n >= 0
FMulInt(x, n) == Float(x.neg, RoundMag(MagMulSmall(x.mag, n), FALSE))

FLt(x, y) ==
    IF x.neg # y.neg THEN x.neg
    ELSE IF x.neg THEN MagCmp(x.mag, y.mag) > 0
    ELSE MagCmp(x.mag, y.mag) < 0
FLe(x, y) == x = y \/ FLt(x, y)

\* The double a decimal literal n/10^k denotes, for 10^k <= 100.
FloatLit(n, pow10) == FDivInt(FloatOfInt(n), pow10)

(***************************************************************************)
(* Python values of a raw payload.  A value carries its type and its text: *)
(* a str its characters (a timestamp its lexical tokens), an int its       *)
(* digits, a dict (the nested quiz object) the value of its 'topic' key,   *)
(* if any.                                                                 *)
(***************************************************************************)
PyStr(s) == [type |-> "str", v |-> s]
PyInt(digits) == [type |-> "int", v |-> digits]
PyNone == [type |-> "NoneType", v |-> <<>>]
PyDict(topic) == [type |-> "dict", v |-> topic]

Digits == <<"0", "1", "2", "3", "4", "5", "6", "7", "8", "9">>
IsDigit(c) == \E i \in 1..Len(Digits) : Digits[i] = c
DigitVal(c) == (CHOOSE i \in 1..Len(Digits) : Digits[i] = c) - 1

RECURSIVE DecimalValue(_)
DecimalValue(s) ==
    IF s = <<>> THEN 0
    ELSE DecimalValue(SubSeq(s, 1, Len(s) - 1)) * 10 + DigitVal(s[Len(s)])

\* str.strip(ch): every leading and every trailing ch removed
RECURSIVE strip(_, _)
strip(s, ch) ==
    IF s = <<>> THEN s
    ELSE IF s[1] = ch THEN strip(Tail(s), ch)
    ELSE IF s[Len(s)] = ch THEN strip(SubSeq(s, 1, Len(s) - 1), ch)
    ELSE s

\* float(x) for a str of the characters 0-9, '-', '%' and letters: an
\* optional sign and at least one digit, anything else is a ValueError.
float_of_str(s) ==
    LET neg == s # <<>> /\ s[1] = "-"
        body == IF neg THEN Tail(s) ELSE s
    IN  IF body # <<>> /\ \A i \in 1..Len(body) : IsDigit(body[i])
        THEN Return(FloatOfInt(IF neg THEN -DecimalValue(body) ELSE DecimalValue(body)))
        ELSE Raise("ValueError", <<"could not convert string to float">>)

\* float(x) for any value: an int converts, a str is parsed, None and a
\* dict are a TypeError.
float(x) ==
    CASE x.type = "int" -> Return(FloatOfInt(DecimalValue(x.v)))
      [] x.type = "str" -> float_of_str(x.v)
      [] OTHER -> Raise("TypeError", <<"float() argument must be a string or a number">>)

(***************************************************************************)
(* Timestamps.  An ISO-8601 text is a date-time token, optionally followed *)
(* by a UTC designator: the literal "Z" or the offset "+00:00".            *)
(***************************************************************************)
DateTimes ==
    <<"2024-01-01T09:00:00", "2024-01-02T09:00:00", "2024-01-03T09:00:00",
      "2024-01-04", "2024-01-05">>
IsDateTime(tok) == \E i \in 1..Len(DateTimes) : DateTimes[i] = tok
Instant(tok) == CHOOSE i \in 1..Len(DateTimes) : DateTimes[i] = tok

\* str.replace('Z', '+00:00')
replace_Z(s) == [i \in 1..Len(s) |-> IF s[i] = "Z" THEN "+00:00" ELSE s[i]]

\* datetime.fromisoformat: a naive datetime without an offset, an aware
\* one with it, a ValueError for any other text.
fromisoformat(s) ==
    IF Len(s) = 1 /\ IsDateTime(s[1])
    THEN Return([t |-> Instant(s[1]), aware |-> FALSE])
    ELSE IF Len(s) = 2 /\ IsDateTime(s[1]) /\ s[2] = "+00:00"
    THEN Return([t |-> Instant(s[1]), aware |-> TRUE])
    ELSE Raise("ValueError", <<"Invalid isoformat string">>)

(***************************************************************************)
(* DataProcessor                                                           *)
(***************************************************************************)
required_fields ==
    <<"id", "quiz_id", "user_id", "submitted_at", "score", "accuracy", "final_score">>

\* dict.get(key, default)
get(d, key, default) == IF key \in DOMAIN d THEN d[key] ELSE default

\* The validation loop: the first required field missing from the payload.
missing_fields(raw_data) ==
    {i \in 1..Len(required_fields) : required_fields[i] \notin DOMAIN raw_data}
first_missing(raw_data) ==
    required_fields[CHOOSE i \in missing_fields(raw_data) :
                        \A j \in missing_fields(raw_data) : i <= j]

\* The conversions after the validation loop, in the order the code
\* evaluates them: the timestamp, the nested topic, then the score.  The
\* QuizSubmission also takes speed, correct_answers, incorrect_answers,
\* total_questions and response_map from the payload with dict.get and a
\* default, which cannot raise; no component reads them, and the record
\* here does not carry them.
convert_submission(raw_data) ==
    IF raw_data["submitted_at"].type # "str"
    THEN Raise("AttributeError", <<"object has no attribute 'replace'">>)
    ELSE LET submitted_at == fromisoformat(replace_Z(raw_data["submitted_at"].v))
             quiz == get(raw_data, "quiz", PyDict(<<>>))
             score == float(raw_data["score"])
         IN  IF ~submitted_at.ok THEN submitted_at
             ELSE IF quiz.type # "dict"
             THEN Raise("AttributeError", <<"object has no attribute 'get'">>)
             ELSE IF ~score.ok THEN score
             ELSE Return([id |-> raw_data["id"],
                          quiz_id |-> raw_data["quiz_id"],
                          user_id |-> raw_data["user_id"],
                          submitted_at |-> submitted_at.value,
                          score |-> score.value,
                          accuracy |-> raw_data["accuracy"],
                          final_score |-> raw_data["final_score"],
                          topic |-> IF quiz.v = <<>> THEN "Unknown" ELSE quiz.v[1]])

\* preprocess_quiz_submission without its validation loop: the first lookup
\* of an absent key raises KeyError.
preprocess_without_validation(raw_data) ==
    IF missing_fields(raw_data) # {}
    THEN Raise("KeyError", <<first_missing(raw_data)>>)
    ELSE convert_submission(raw_data)

preprocess_quiz_submission(raw_data) ==
    IF missing_fields(raw_data) # {}
    THEN Raise("ValueError", <<"Missing required field: ", first_missing(raw_data)>>)
    ELSE convert_submission(raw_data)

\* The loop of process_historical_data: a ValueError skips the record and
\* prints a line, any other exception leaves the loop and the function.
RECURSIVE process_loop(_, _, _)
process_loop(raw_data, processed_data, printed) ==
    IF raw_data = <<>> THEN [res |-> Return(processed_data), printed |-> printed]
    ELSE LET processed == preprocess_quiz_submission(Head(raw_data))
         IN  IF processed.ok
             THEN process_loop(Tail(raw_data), Append(processed_data, processed.value), printed)
             ELSE IF processed.exc = "ValueError"
             THEN process_loop(Tail(raw_data), processed_data,
                               Append(printed, <<"Skipping invalid submission: ">> \o processed.msg))
             ELSE [res |-> processed, printed |-> printed]

\* process_historical_data with `break` in place of `continue`: the loop ends
\* at the first record that fails validation.
RECURSIVE process_loop_break(_, _, _)
process_loop_break(raw_data, processed_data, printed) ==
    IF raw_data = <<>> THEN [res |-> Return(processed_data), printed |-> printed]
    ELSE LET processed == preprocess_quiz_submission(Head(raw_data))
         IN  IF processed.ok
             THEN process_loop_break(Tail(raw_data), Append(processed_data, processed.value),
                                     printed)
             ELSE IF processed.exc = "ValueError"
             THEN [res |-> Return(processed_data),
                   printed |-> Append(printed, <<"Skipping invalid submission: ">> \o processed.msg)]
             ELSE [res |-> processed, printed |-> printed]
process_historical_data_break(raw_data) == process_loop_break(raw_data, <<>>, <<>>)

process_historical_data(raw_data) == process_loop(raw_data, <<>>, <<>>)


(***************************************************************************)
(* Python dict: the keys in insertion order, each with its value.          *)
(***************************************************************************)
\* The elements of a list.
Range(s) == {s[i] : i \in 1..Len(s)}
Keys(d) == [i \in 1..Len(d) |-> d[i][1]]
Has(d, k) == \E i \in 1..Len(d) : d[i][1] = k
Get(d, k) == d[CHOOSE i \in 1..Len(d) : d[i][1] = k][2]
Put(d, k, v) ==
    IF Has(d, k)
    THEN [i \in 1..Len(d) |-> IF d[i][1] = k THEN <<k, v>> ELSE d[i]]
    ELSE Append(d, <<k, v>>)

(***************************************************************************)
(* PerformanceAnalyzer                                                     *)
(***************************************************************************)
\* float(quiz.accuracy.strip('%')) / 100
accuracy_fraction(quiz) ==
    IF quiz.accuracy.type # "str"
    THEN Raise("AttributeError", <<"object has no attribute 'strip'">>)
    ELSE LET parsed == float_of_str(strip(quiz.accuracy.v, "%"))
         IN  IF parsed.ok THEN Return(FDivInt(parsed.value, 100)) ELSE parsed

\* The returned comprehension with every sum divided by the number of all
\* quizzes instead of the topic's own count.
RECURSIVE TotalCount(_)
TotalCount(topic_counts) ==
    IF topic_counts = <<>> THEN 0 ELSE Head(topic_counts)[2] + TotalCount(Tail(topic_counts))
topic_means_overall(topic_scores, topic_counts) ==
    [i \in 1..Len(topic_scores) |->
        <<topic_scores[i][1], FDivInt(topic_scores[i][2], TotalCount(topic_counts))>>]

\* The returned comprehension: score/count for each topic, the two dicts
\* zipped in their common key order.
topic_means(topic_scores, topic_counts) ==
    [i \in 1..Len(topic_scores) |->
        <<topic_scores[i][1], FDivInt(topic_scores[i][2], topic_counts[i][2])>>]

\* The loop of analyze_topic_performance over the two accumulators.
RECURSIVE topic_loop(_, _, _)
topic_loop(quiz_history, topic_scores, topic_counts) ==
    IF quiz_history = <<>>
    THEN Return(topic_means(topic_scores, topic_counts))
    ELSE LET quiz == Head(quiz_history)
             scores == IF Has(topic_scores, quiz.topic) THEN topic_scores
                       ELSE Put(topic_scores, quiz.topic, FZero)
             counts == IF Has(topic_counts, quiz.topic) THEN topic_counts
                       ELSE Put(topic_counts, quiz.topic, 0)
             accuracy == accuracy_fraction(quiz)
         IN  IF ~accuracy.ok THEN accuracy
             ELSE topic_loop(Tail(quiz_history),
                             Put(scores, quiz.topic, FAdd(Get(scores, quiz.topic), accuracy.value)),
                             Put(counts, quiz.topic, Get(counts, quiz.topic) + 1))

analyze_topic_performance(quiz_history) == topic_loop(quiz_history, <<>>, <<>>)

WEAKNESS_THRESHOLD == FloatLit(6, 10)

identify_weak_areas(topic_performance) ==
    LET weak == SelectSeq(topic_performance, LAMBDA item : FLt(item[2], WEAKNESS_THRESHOLD))
    IN  [i \in 1..Len(weak) |-> weak[i][1]]

\* sorted(quiz_history, key=lambda x: x.submitted_at): a stable sort; an
\* element goes after every element whose key is not greater.  Comparing a
\* naive with an aware datetime raises TypeError.
\* insort placing an element before the elements of equal key.
insort_before_equal(sorted_quizzes, quiz) ==
    LET later == {i \in 1..Len(sorted_quizzes) :
                      sorted_quizzes[i].submitted_at.t >= quiz.submitted_at.t}
        at == IF later = {} THEN Len(sorted_quizzes) + 1
              ELSE CHOOSE i \in later : \A j \in later : i <= j
    IN  SubSeq(sorted_quizzes, 1, at - 1) \o <<quiz>>
            \o SubSeq(sorted_quizzes, at, Len(sorted_quizzes))

insort(sorted_quizzes, quiz) ==
    LET later == {i \in 1..Len(sorted_quizzes) :
                      sorted_quizzes[i].submitted_at.t > quiz.submitted_at.t}
        at == IF later = {} THEN Len(sorted_quizzes) + 1
              ELSE CHOOSE i \in later : \A j \in later : i <= j
    IN  SubSeq(sorted_quizzes, 1, at - 1) \o <<quiz>>
            \o SubSeq(sorted_quizzes, at, Len(sorted_quizzes))
RECURSIVE sort_loop(_, _)
sort_loop(quiz_history, sorted_quizzes) ==
    IF quiz_history = <<>> THEN sorted_quizzes
    ELSE sort_loop(Tail(quiz_history), insort(sorted_quizzes, Head(quiz_history)))
sorted_by_submitted_at(quiz_history) ==
    IF \E i, j \in 1..Len(quiz_history) :
           quiz_history[i].submitted_at.aware # quiz_history[j].submitted_at.aware
    THEN Raise("TypeError", <<"can't compare offset-naive and offset-aware datetimes">>)
    ELSE Return(sort_loop(quiz_history, <<>>))

\* The loop of calculate_improvement_trends over the sorted quizzes.
RECURSIVE trend_loop(_, _)
trend_loop(sorted_quizzes, topic_trends) ==
    IF sorted_quizzes = <<>> THEN Return(topic_trends)
    ELSE LET quiz == Head(sorted_quizzes)
             trends == IF Has(topic_trends, quiz.topic) THEN topic_trends
                       ELSE Put(topic_trends, quiz.topic, <<>>)
             accuracy == accuracy_fraction(quiz)
         IN  IF ~accuracy.ok THEN accuracy
             ELSE trend_loop(Tail(sorted_quizzes),
                             Put(trends, quiz.topic,
                                 Append(Get(trends, quiz.topic), accuracy.value)))

\* calculate_improvement_trends keeping only the topics with at least two
\* quizzes.
calculate_trends_of_repeated_topics(quiz_history) ==
    LET sorted_quizzes == sorted_by_submitted_at(quiz_history)
        trends == trend_loop(sorted_quizzes.value, <<>>)
    IN  IF ~sorted_quizzes.ok THEN sorted_quizzes
        ELSE IF ~trends.ok THEN trends
        ELSE Return(SelectSeq(trends.value, LAMBDA item : Len(item[2]) > 1))

calculate_improvement_trends(quiz_history) ==
    LET sorted_quizzes == sorted_by_submitted_at(quiz_history)
    IN  IF sorted_quizzes.ok THEN trend_loop(sorted_quizzes.value, <<>>) ELSE sorted_quizzes

\* The body of analyze_student_performance after its guard.
student_performance(quiz_history) ==
    LET topic_performance == analyze_topic_performance(quiz_history)
        improvement_trends == calculate_improvement_trends(quiz_history)
    IN  IF ~topic_performance.ok THEN topic_performance
        ELSE IF ~improvement_trends.ok THEN improvement_trends
        ELSE Return([user_id |-> quiz_history[1].user_id,
                     quiz_history |-> quiz_history,
                     topic_wise_accuracy |-> topic_performance.value,
                     weak_areas |-> identify_weak_areas(topic_performance.value),
                     improvement_trends |-> improvement_trends.value,
                     predicted_rank |-> PyNone,
                     recommended_colleges |-> PyNone])

\* analyze_student_performance without its guard: quiz_history[0] of an
\* empty list raises IndexError.
analyze_without_guard(quiz_history) ==
    IF quiz_history = <<>> THEN Raise("IndexError", <<"list index out of range">>)
    ELSE student_performance(quiz_history)

analyze_student_performance(quiz_history) ==
    IF quiz_history = <<>> THEN Raise("ValueError", <<"Quiz history is empty">>)
    ELSE student_performance(quiz_history)

\* The caller's list after sorted(quiz_history, ...): sorted builds a new
\* list, the list it is given keeps its elements and their order.
list_after_sort_in_place(quiz_history) == sort_loop(quiz_history, <<>>)
list_after_sorted(quiz_history) == quiz_history

\* The caller's list after analyze_student_performance: the two loops only
\* read it, and it reaches sorted when the guard and the topic loop passed.
list_after_analysis(quiz_history) ==
    IF /\ quiz_history # <<>>
       /\ analyze_topic_performance(quiz_history).ok
       /\ sorted_by_submitted_at(quiz_history).ok
    THEN list_after_sorted(quiz_history)
    ELSE quiz_history

(***************************************************************************)
(* InsightGenerator                                                        *)
(***************************************************************************)
\* float('nan'), the mean numpy gives for no values at all.
NaN == [nan |-> TRUE]
IsNaN(x) == "nan" \in DOMAIN x

\* float(np.mean(values)): numpy adds fewer than eight values one after
\* the other and divides the sum by their number.
RECURSIVE np_sum(_, _)
np_sum(values, acc) ==
    IF values = <<>> THEN acc ELSE np_sum(Tail(values), FAdd(acc, Head(values)))
np_mean(values) ==
    IF values = <<>> THEN NaN ELSE FDivInt(np_sum(values, FZero), Len(values))

\* x * 100
times_100(x) == IF IsNaN(x) THEN NaN ELSE FMulInt(x, 100)

\* The integer nearest to |x| * 10^ndigits, a tie going to the even one,
\* for ndigits <= 2.
NearestScaled(x, ndigits) ==
    LET scaled == MagMulSmall(x.mag, 10^ndigits)
        frac == [i \in Limbs |-> IF i = 1 THEN 0 ELSE scaled[i]]
        half == [i \in Limbs |-> IF i = 2 THEN Base \div 2 ELSE 0]
        c == MagCmp(frac, half)
    IN  IF c > 0 \/ (c = 0 /\ scaled[1] % 2 = 1) THEN scaled[1] + 1 ELSE scaled[1]

\* round(x, ndigits): the double nearest to the decimal of ndigits places
\* that is nearest to x.
round(x, ndigits) ==
    IF IsNaN(x) THEN NaN
    ELSE FDivInt(Float(x.neg, MagOfInt(NearestScaled(x, ndigits))), 10^ndigits)

\* str(n) for an int n >= 0
RECURSIVE str_of_int(_)
str_of_int(n) ==
    IF n < 10 THEN <<Digits[n + 1]>>
    ELSE Append(str_of_int(n \div 10), Digits[(n % 10) + 1])

\* str(x) for a double that round(_, 2) returned: the shortest decimal that
\* reads back as x, which is the two-place decimal x was rounded to, with
\* one place when the second is 0.
str_of_float(x) ==
    IF IsNaN(x) THEN <<"n", "a", "n">>
    ELSE LET k == NearestScaled(x, 2)
             places == IF k % 10 = 0 THEN <<Digits[((k % 100) \div 10) + 1]>>
                       ELSE <<Digits[((k % 100) \div 10) + 1], Digits[(k % 10) + 1]>>
         IN  (IF x.neg THEN <<"-">> ELSE <<>>) \o str_of_int(k \div 100) \o <<".">> \o places

\* str(quiz.submitted_at): the date and the time separated by a space,
\* followed by the offset of an aware datetime.
DateTimeStrs ==
    <<"2024-01-01 09:00:00", "2024-01-02 09:00:00", "2024-01-03 09:00:00",
      "2024-01-04 00:00:00", "2024-01-05 00:00:00">>
str_of_datetime(d) ==
    IF d.aware THEN <<DateTimeStrs[d.t], "+00:00">> ELSE <<DateTimeStrs[d.t]>>

\* The loop over the history: a quiz whose accuracy or final score does not
\* convert is left out; its accuracy is already in accuracies when the
\* final score fails.
RECURSIVE process_quizzes(_, _, _)
process_quizzes(quiz_history, accuracies, processed_quizzes) ==
    IF quiz_history = <<>>
    THEN [accuracies |-> accuracies, processed_quizzes |-> processed_quizzes]
    ELSE LET quiz == Head(quiz_history)
             accuracy == accuracy_fraction(quiz)
             score == float(quiz.final_score)
         IN  IF ~accuracy.ok
             THEN process_quizzes(Tail(quiz_history), accuracies, processed_quizzes)
             ELSE IF ~score.ok
             THEN process_quizzes(Tail(quiz_history), Append(accuracies, accuracy.value),
                                  processed_quizzes)
             ELSE process_quizzes(Tail(quiz_history), Append(accuracies, accuracy.value),
                                  Append(processed_quizzes,
                                         [topic |-> quiz.topic,
                                          accuracy |-> accuracy.value,
                                          score |-> score.value,
                                          date |-> str_of_datetime(quiz.submitted_at)]))

\* The overall statistics.
overall_stats(accuracies, processed_quizzes) ==
    [average_accuracy |-> round(times_100(np_mean(accuracies)), 2),
     total_quizzes |-> Len(processed_quizzes),
     unique_topics |->
        Cardinality({processed_quizzes[i].topic : i \in 1..Len(processed_quizzes)})]

\* The loop that groups the processed quizzes by topic.
RECURSIVE topic_stats_loop(_, _)
topic_stats_loop(processed_quizzes, topic_stats) ==
    IF processed_quizzes = <<>> THEN topic_stats
    ELSE LET quiz == Head(processed_quizzes)
             stats == IF Has(topic_stats, quiz.topic) THEN topic_stats
                      ELSE Put(topic_stats, quiz.topic, [accuracies |-> <<>>, scores |-> <<>>])
             data == Get(stats, quiz.topic)
         IN  topic_stats_loop(Tail(processed_quizzes),
                              Put(stats, quiz.topic,
                                  [accuracies |-> Append(data.accuracies, quiz.accuracy),
                                   scores |-> Append(data.scores, quiz.score)]))

\* self._categorize_performance: InsightGenerator defines __init__,
\* _serialize_value, _safe_process and generate_comprehensive_report and
\* no other attribute, so the lookup raises.
_categorize_performance(avg_accuracy) ==
    Raise("AttributeError",
          <<"'InsightGenerator' object has no attribute '_categorize_performance'">>)

\* The recommendation text of a topic.
recommendation(topic, avg_accuracy) ==
    IF FLt(avg_accuracy, FloatLit(6, 10)) THEN <<"Focus on ", topic, " fundamentals">>
    ELSE IF FLt(avg_accuracy, FloatLit(8, 10)) THEN <<"Practice more ", topic, " problems">>
    ELSE <<"Maintain performance in ", topic>>

\* The insight of one topic: the entries of the dict display are evaluated
\* in order, the score before the status.
topic_insight(topic, data) ==
    LET avg_accuracy == np_mean(data.accuracies)
        score == round(times_100(avg_accuracy), 2)
        status == _categorize_performance(avg_accuracy)
    IN  IF ~status.ok THEN status
        ELSE Return([score |-> score,
                     status |-> status.value,
                     recommendations |-> <<recommendation(topic, avg_accuracy)>>])

RECURSIVE topic_insights_loop(_, _)
topic_insights_loop(topic_stats, topic_insights) ==
    IF topic_stats = <<>> THEN Return(topic_insights)
    ELSE LET topic == Head(topic_stats)[1]
             insight == topic_insight(topic, Head(topic_stats)[2])
         IN  IF ~insight.ok THEN insight
             ELSE topic_insights_loop(Tail(topic_stats),
                                      Put(topic_insights, topic, insight.value))

\* The weak areas: the topics scoring below 70.
report_weak_areas(topic_insights) ==
    LET weak == SelectSeq(topic_insights, LAMBDA item : FLt(item[2].score, FloatOfInt(70)))
    IN  [i \in 1..Len(weak) |->
            [topic |-> weak[i][1],
             current_score |-> str_of_float(weak[i][2].score) \o <<"%">>,
             priority |-> IF FLt(weak[i][2].score, FloatOfInt(60)) THEN "High" ELSE "Medium"]]

report_recommendations(weak_areas) ==
    [i \in 1..Len(weak_areas) |->
        [area |-> weak_areas[i].topic,
         action |-> <<"Intensive practice needed in ", weak_areas[i].topic>>,
         priority |-> weak_areas[i].priority]]

NEET_TOPICS ==
    <<"Human Physiology",
      "Body Fluids and Circulation",
      "Reproduction",
      "Reproductive Health",
      "Principles of Inheritance and Variation",
      "Microbes in Human Welfare",
      "Human Health and Disease",
      "Structural Organisation in Animals">>

\* The report of a history processed without an exception.  Each of its
\* values is a str, an int, a float, a list or a dict, which json.dumps
\* accepts (nan included), so it is returned as it is.
final_report(stats, topic_insights, weak_areas, now) ==
    << <<"overall_statistics",
         << <<"average_accuracy", stats.average_accuracy>>,
            <<"total_quizzes", stats.total_quizzes>>,
            <<"topics_covered", stats.unique_topics>>,
            <<"topics_needing_improvement", Len(weak_areas)>> >> >>,
       <<"topic_insights", topic_insights>>,
       <<"weak_areas", weak_areas>>,
       <<"recommendations", report_recommendations(weak_areas)>>,
       <<"uncovered_topics", SelectSeq(NEET_TOPICS, LAMBDA topic : ~Has(topic_insights, topic))>>,
       <<"generated_at", now>> >>

\* The body of generate_comprehensive_report after its guard: the report,
\* or the exception raised on the way to it.
comprehensive_report(quiz_history, now) ==
    LET processed == process_quizzes(quiz_history, <<>>, <<>>)
        stats == overall_stats(processed.accuracies, processed.processed_quizzes)
        topic_stats == topic_stats_loop(processed.processed_quizzes, <<>>)
        topic_insights == topic_insights_loop(topic_stats, <<>>)
    IN  IF ~topic_insights.ok THEN topic_insights
        ELSE Return(final_report(stats, topic_insights.value,
                                 report_weak_areas(topic_insights.value), now))

\* The report that stands for a failure.
error_report(message, now) == << <<"error", message>>, <<"generated_at", now>> >>

\* The handler of any exception raised by the body: str(e) in an error
\* report.
report_or_error(report, now) ==
    IF report.ok THEN report.value ELSE error_report(report.msg, now)

\* generate_comprehensive_report without its guard on the empty history.
generate_report_without_guard(quiz_history, now) ==
    report_or_error(comprehensive_report(quiz_history, now), now)

\* now is what datetime.now().isoformat() gives when the report is built.
generate_comprehensive_report(quiz_history, now) ==
    IF quiz_history = <<>> THEN error_report(<<"No quiz history available">>, now)
    ELSE report_or_error(comprehensive_report(quiz_history, now), now)

(***************************************************************************)
(* RankPredictor                                                           *)
(***************************************************************************)
\* __init__: a RandomForestRegressor that is not fitted, and is_trained
\* False.  The model is the sample it was fitted on: none before fit.
RankPredictor == [is_trained |-> FALSE, model |-> <<>>]

\* The values of a dict, in insertion order.
values(d) == [i \in 1..Len(d) |-> d[i][2]]

\* max(quiz_history, key=lambda x: x.submitted_at): the first of the
\* quizzes with the greatest key.
latest_quiz(quiz_history) ==
    quiz_history[CHOOSE i \in 1..Len(quiz_history) :
        /\ \A j \in 1..Len(quiz_history) :
               quiz_history[j].submitted_at.t <= quiz_history[i].submitted_at.t
        /\ \A j \in 1..(i - 1) :
               quiz_history[j].submitted_at.t < quiz_history[i].submitted_at.t]

\* trend[-1] - trend[0] for every trend, those of a single value included.
improvements_of_every_trend(improvement_trends) ==
    LET trends == values(improvement_trends)
    IN  [i \in 1..Len(trends) |-> FSub(trends[i][Len(trends[i])], trends[i][1])]

\* trend[-1] - trend[0] for the trends of more than one value.
improvements(improvement_trends) ==
    LET trends == SelectSeq(values(improvement_trends), LAMBDA trend : Len(trend) > 1)
    IN  [i \in 1..Len(trends) |-> FSub(trends[i][Len(trends[i])], trends[i][1])]

\* _extract_features: the four features, every one a float64 in the array.
_extract_features(performance) ==
    LET avg_accuracy == np_mean(values(performance.topic_wise_accuracy))
        avg_improvement == np_mean(improvements(performance.improvement_trends))
        aware == {performance.quiz_history[i].submitted_at.aware :
                      i \in 1..Len(performance.quiz_history)}
        score == float(latest_quiz(performance.quiz_history).final_score)
    IN  IF performance.quiz_history = <<>>
        THEN Raise("ValueError", <<"max() arg is an empty sequence">>)
        ELSE IF Cardinality(aware) > 1
        THEN Raise("TypeError", <<"can't compare offset-naive and offset-aware datetimes">>)
        ELSE IF ~score.ok THEN score
        ELSE Return(<<avg_accuracy,
                      FloatOfInt(Len(performance.weak_areas)),
                      avg_improvement,
                      score.value>>)

\* The features of the training data, one row each, up to the first
\* performance whose extraction raises.
RECURSIVE feature_rows(_, _)
feature_rows(training_data, X) ==
    IF training_data = <<>> THEN Return(X)
    ELSE LET features == _extract_features(Head(training_data)[1])
         IN  IF ~features.ok THEN features
             ELSE feature_rows(Tail(training_data), Append(X, features.value))

HasNaN(X) == \E i \in 1..Len(X) : \E j \in 1..Len(X[i]) : IsNaN(X[i][j])

\* train setting is_trained before it extracts the features and fits.
train_marking_first(predictor, training_data, accepts_nan) ==
    LET X == feature_rows(training_data, <<>>)
        y == [i \in 1..Len(training_data) |-> training_data[i][2]]
        marked == [is_trained |-> TRUE, model |-> predictor.model]
    IN  IF ~X.ok THEN [res |-> X, predictor |-> marked]
        ELSE IF training_data = <<>>
        THEN [res |-> Raise("ValueError", <<"need at least one array to concatenate">>),
              predictor |-> marked]
        ELSE IF HasNaN(X.value) /\ ~accepts_nan
        THEN [res |-> Raise("ValueError", <<"Input X contains NaN.">>),
              predictor |-> marked]
        ELSE [res |-> Return(PyNone),
              predictor |-> [is_trained |-> TRUE, model |-> <<[X |-> X.value, y |-> y]>>]]

\* train: the outcome and the predictor after it.  np.vstack raises for no
\* rows.  fit checks its input before it changes the model; whether it
\* takes a nan depends on the scikit-learn release, hence accepts_nan.
train(predictor, training_data, accepts_nan) ==
    LET X == feature_rows(training_data, <<>>)
        y == [i \in 1..Len(training_data) |-> training_data[i][2]]
    IN  IF ~X.ok THEN [res |-> X, predictor |-> predictor]
        ELSE IF training_data = <<>>
        THEN [res |-> Raise("ValueError", <<"need at least one array to concatenate">>),
              predictor |-> predictor]
        ELSE IF HasNaN(X.value) /\ ~accepts_nan
        THEN [res |-> Raise("ValueError", <<"Input X contains NaN.">>),
              predictor |-> predictor]
        ELSE [res |-> Return(PyNone),
              predictor |-> [is_trained |-> TRUE, model |-> <<[X |-> X.value, y |-> y]>>]]

\* What a fitted forest can predict, as an int: every tree answers with
\* the mean of some of the ranks it was fitted on, so the average lies
\* between the least and the greatest of them.
Predictions(model) ==
    IF model = <<>> THEN {0}
    ELSE LET y == model[1].y
             least == CHOOSE r \in Range(y) : \A q \in Range(y) : r <= q
             greatest == CHOOSE r \in Range(y) : \A q \in Range(y) : q <= r
         IN  least..greatest

\* predict_rank where the untrained estimator raises instead of answering
\* with a constant.
predict_rank_or_raise(predictor, performance, accepts_nan, predicted_rank) ==
    IF ~predictor.is_trained
    THEN Raise("NotFittedError", <<"This RandomForestRegressor instance is not fitted yet.">>)
    ELSE Return(predicted_rank)

\* predict_rank; predicted_rank is int(self.model.predict(features)[0]).
predict_rank(predictor, performance, accepts_nan, predicted_rank) ==
    IF ~predictor.is_trained THEN Return(5000)
    ELSE LET features == _extract_features(performance)
         IN  IF ~features.ok THEN features
             ELSE IF HasNaN(<<features.value>>) /\ ~accepts_nan
             THEN Raise("ValueError", <<"Input X contains NaN.">>)
             ELSE Return(predicted_rank)

predict_colleges(predicted_rank) ==
    <<"All India Institute of Medical Sciences",
      "Christian Medical College",
      "Armed Forces Medical College">>

(***************************************************************************)
(* ChartGenerator                                                          *)
(***************************************************************************)
\* One data point of generate_improvement_chart: the label of the quiz and,
\* for every topic in turn, its score of that number; scores[quiz_num - 1]
\* of a shorter trend raises IndexError.
RECURSIVE improvement_data_point(_, _, _)
improvement_data_point(quiz_num, improvement_data, data_point) ==
    IF improvement_data = <<>> THEN Return(data_point)
    ELSE LET topic == Head(improvement_data)[1]
             scores == Head(improvement_data)[2]
         IN  IF quiz_num > Len(scores) THEN Raise("IndexError", <<"list index out of range">>)
             ELSE improvement_data_point(
                      quiz_num, Tail(improvement_data),
                      Put(data_point, topic, round(times_100(scores[quiz_num]), 2)))

\* The loop over quiz_numbers, from quiz_num to the last of them.
RECURSIVE improvement_rows(_, _, _, _)
improvement_rows(quiz_num, last, improvement_data, chart_data) ==
    IF quiz_num > last THEN Return(chart_data)
    ELSE LET data_point ==
                 improvement_data_point(quiz_num, improvement_data,
                                        << <<"quiz", <<"Quiz ">> \o str_of_int(quiz_num)>> >>)
         IN  IF ~data_point.ok THEN data_point
             ELSE improvement_rows(quiz_num + 1, last, improvement_data,
                                   Append(chart_data, data_point.value))

\* The series of the chart, one for each topic, i counting from 0.
improvement_series(improvement_data) ==
    [i \in 1..Len(improvement_data) |->
        [name |-> improvement_data[i][1],
         dataKey |-> improvement_data[i][1],
         color |-> <<"hsl(">> \o str_of_int((i - 1) * 45) \o <<", 70%, 50%)">>]]

\* generate_improvement_chart: quiz_numbers runs to the length of the
\* first trend of the dict; next() of an empty dict's iterator raises
\* StopIteration.  The axes are constants and not carried.
generate_improvement_chart(improvement_data) ==
    IF improvement_data = <<>> THEN Raise("StopIteration", <<>>)
    ELSE LET chart_data == improvement_rows(1, Len(improvement_data[1][2]),
                                            improvement_data, <<>>)
         IN  IF ~chart_data.ok THEN chart_data
             ELSE Return([data |-> chart_data.value,
                          series |-> improvement_series(improvement_data)])

\* list.sort: the element at i goes to the place after the elements that
\* sort before it and the elements of an equal key that stood before it.
\* before[j][i] tells whether the key of j sorts before the key of i.
sorted_stable(items, before) ==
    LET rank(i) == Cardinality({j \in 1..Len(items) :
                                    \/ before[j][i]
                                    \/ ~before[i][j] /\ j < i}) + 1
    IN  [at \in 1..Len(items) |-> items[CHOOSE i \in 1..Len(items) : rank(i) = at]]

\* datetime.strptime(date, '%Y-%m-%d'): a date without a time converts.
strptime(date) ==
    IF date.type # "str"
    THEN Raise("TypeError", <<"strptime() argument 1 must be str">>)
    ELSE IF Len(date.v) = 1 /\ date.v[1] \in {DateTimes[4], DateTimes[5]}
    THEN Return(Instant(date.v[1]))
    ELSE Raise("ValueError", <<"time data does not match format '%Y-%m-%d'">>)

\* One entry of trend_data, of a raw quiz: the entries of the dict display
\* are evaluated in order.
trend_point(quiz) ==
    IF "submitted_at" \notin DOMAIN quiz THEN Raise("KeyError", <<"submitted_at">>)
    ELSE IF "accuracy" \notin DOMAIN quiz THEN Raise("KeyError", <<"accuracy">>)
    ELSE IF quiz["accuracy"].type # "str"
    THEN Raise("AttributeError", <<"object has no attribute 'strip'">>)
    ELSE LET accuracy == float_of_str(strip(quiz["accuracy"].v, "%"))
         IN  IF ~accuracy.ok THEN accuracy
             ELSE IF "final_score" \notin DOMAIN quiz THEN Raise("KeyError", <<"final_score">>)
             ELSE LET score == float(quiz["final_score"])
                  IN  IF ~score.ok THEN score
                      ELSE Return([date |-> quiz["submitted_at"],
                                   accuracy |-> round(accuracy.value, 2),
                                   score |-> round(score.value, 2)])

RECURSIVE trend_points(_, _)
trend_points(quiz_history, trend_data) ==
    IF quiz_history = <<>> THEN Return(trend_data)
    ELSE LET point == trend_point(Head(quiz_history))
         IN  IF ~point.ok THEN point
             ELSE trend_points(Tail(quiz_history), Append(trend_data, point.value))

\* generate_performance_trend, of the raw quizzes: sort computes the key of
\* every entry, in order, before it compares any.  The axes and the series
\* of this chart and of the next two are constants and not carried.
generate_performance_trend(quiz_history) ==
    LET trend_data == trend_points(quiz_history, <<>>)
        failing == {i \in 1..Len(trend_data.value) : ~strptime(trend_data.value[i].date).ok}
    IN  IF ~trend_data.ok THEN trend_data
        ELSE IF failing # {}
        THEN strptime(trend_data.value[CHOOSE i \in failing : \A j \in failing : i <= j].date)
        ELSE Return([data |-> sorted_stable(
                                  trend_data.value,
                                  [j \in 1..Len(trend_data.value) |->
                                      [i \in 1..Len(trend_data.value) |->
                                          strptime(trend_data.value[j].date).value
                                              < strptime(trend_data.value[i].date).value]])])

\* generate_topic_performance: the rows sorted by accuracy, descending.
generate_topic_performance(topic_data) ==
    LET chart_data ==
            [i \in 1..Len(topic_data) |->
                [topic |-> topic_data[i][1],
                 accuracy |-> round(times_100(topic_data[i][2]), 2),
                 status |-> IF FLe(FloatLit(7, 10), topic_data[i][2]) THEN "Good"
                            ELSE "Needs Improvement"]]
    IN  [data |-> sorted_stable(chart_data,
                                [j \in 1..Len(chart_data) |->
                                    [i \in 1..Len(chart_data) |->
                                        FLt(chart_data[i].accuracy, chart_data[j].accuracy)]])]

\* generate_weak_areas_chart: the rows sorted by accuracy, ascending.
generate_weak_areas_chart(weak_areas_data) ==
    LET chart_data ==
            [i \in 1..Len(weak_areas_data) |->
                [topic |-> weak_areas_data[i][1],
                 accuracy |-> round(times_100(weak_areas_data[i][2]), 2),
                 gap |-> round(FSub(FloatOfInt(70), times_100(weak_areas_data[i][2])), 2),
                 status |-> IF FLt(weak_areas_data[i][2], FloatLit(6, 10)) THEN "Critical"
                            ELSE "Needs Work"]]
    IN  [data |-> sorted_stable(chart_data,
                                [j \in 1..Len(chart_data) |->
                                    [i \in 1..Len(chart_data) |->
                                        FLt(chart_data[j].accuracy, chart_data[i].accuracy)]])]

(***************************************************************************)
(* QuizClient: the mock files of the data directory.                       *)
(***************************************************************************)
\* A file of the data directory: absent, or the JSON it holds.
NoFile == [exists |-> FALSE]
File(data) == [exists |-> TRUE, data |-> data]

\* get_historical_quiz_data: the quizzes of the user in api_endpoint.json,
\* none when the file is absent; quiz['user_id'] of a quiz without the key
\* raises KeyError.
get_historical_quiz_data(api_endpoint, user_id) ==
    IF ~api_endpoint.exists THEN Return(<<>>)
    ELSE IF \E i \in 1..Len(api_endpoint.data) : "user_id" \notin DOMAIN api_endpoint.data[i]
    THEN Raise("KeyError", <<"user_id">>)
    ELSE Return(SelectSeq(api_endpoint.data, LAMBDA quiz : quiz["user_id"] = PyStr(user_id)))

\* get_current_quiz_submission: the submission of quiz_submission.json when
\* it is the user's, else None.
get_current_quiz_submission(quiz_submission, user_id) ==
    IF ~quiz_submission.exists THEN Return(PyNone)
    ELSE IF "user_id" \notin DOMAIN quiz_submission.data THEN Raise("KeyError", <<"user_id">>)
    ELSE IF quiz_submission.data["user_id"] = PyStr(user_id) THEN Return(quiz_submission.data)
    ELSE Return(PyNone)

(***************************************************************************)
(* The request handlers of app.py.  The body of a handler's try block      *)
(* returns the content of its JSONResponse or raises; the handler answers  *)
(* with a status code and a body.                                          *)
(***************************************************************************)
HTTPException(status_code, detail) ==
    [ok |-> FALSE, exc |-> "HTTPException", status_code |-> status_code, msg |-> detail]
\* What the client receives.
Response(status_code, body) == [status_code |-> status_code, body |-> body]
JSONResponse(content) == Response(200, content)

\* str(e).  For an HTTPException it is "<status>: <detail>" where Starlette
\* defines __str__ and the empty text where it does not; for a KeyError the
\* repr of the key.
str_of_exception(e, http_has_str) ==
    IF e.exc = "HTTPException"
    THEN IF http_has_str THEN str_of_int(e.status_code) \o <<": ">> \o e.msg ELSE <<>>
    ELSE IF e.exc = "KeyError" THEN <<"'">> \o e.msg \o <<"'">>
    ELSE e.msg

\* except Exception as e: raise HTTPException(status_code=500, detail=str(e))
\* around a try block that ended as `body`: its outcome and what it printed.
except_Exception(body, http_has_str) ==
    [res |-> IF body.res.ok THEN JSONResponse(body.res.value)
             ELSE Response(500, [detail |-> str_of_exception(body.res, http_has_str)]),
     printed |-> body.printed]

\* A try block is written statement by statement: <handler>_with_<name> is
\* what remains of the block once <name> has been assigned.

\* analyze_performance from response_data on.
analyze_performance_with_performance(user_id, performance, printed) ==
    IF ~performance.ok THEN [res |-> performance, printed |-> printed]
    ELSE IF "difficulty_analysis" \notin DOMAIN performance.value
    THEN [res |-> Raise("AttributeError",
                        <<"'StudentPerformance' object has no attribute 'difficulty_analysis'">>),
          printed |-> printed]
    ELSE [res |-> Return([user_id |-> user_id,
                          topic_wise_accuracy |-> performance.value.topic_wise_accuracy,
                          difficulty_analysis |-> performance.value.difficulty_analysis,
                          weak_areas |-> performance.value.weak_areas,
                          improvement_trends |-> performance.value.improvement_trends]),
          printed |-> printed]

\* analyze_performance from `if current_quiz:` on; processed_current is
\* evaluated only when there is a current quiz.
analyze_performance_with_processed_history(user_id, current_quiz, processed, processed_current) ==
    IF ~processed.res.ok THEN processed
    ELSE IF current_quiz # PyNone /\ ~processed_current.ok
    THEN [res |-> processed_current, printed |-> processed.printed]
    ELSE analyze_performance_with_performance(
             user_id,
             analyze_student_performance(
                 IF current_quiz = PyNone THEN processed.res.value
                 ELSE Append(processed.res.value, processed_current.value)),
             processed.printed)

\* analyze_performance from `if not quiz_history and not current_quiz:` on.
analyze_performance_with_current_quiz(user_id, quiz_history, current_quiz) ==
    IF ~quiz_history.ok THEN [res |-> quiz_history, printed |-> <<>>]
    ELSE IF ~current_quiz.ok THEN [res |-> current_quiz, printed |-> <<>>]
    ELSE IF quiz_history.value = <<>> /\ current_quiz.value = PyNone
    THEN [res |-> HTTPException(404, <<"No quiz data found for user">>), printed |-> <<>>]
    ELSE analyze_performance_with_processed_history(
             user_id, current_quiz.value,
             process_historical_data(quiz_history.value),
             preprocess_quiz_submission(current_quiz.value))

\* The try block of analyze_performance, with what it printed.
try_analyze_performance(user_id, api_endpoint, quiz_submission) ==
    analyze_performance_with_current_quiz(
        user_id,
        get_historical_quiz_data(api_endpoint, user_id),
        get_current_quiz_submission(quiz_submission, user_id))

\* GET /analysis/{user_id}
analyze_performance(user_id, api_endpoint, quiz_submission, http_has_str) ==
    except_Exception(try_analyze_performance(user_id, api_endpoint, quiz_submission),
                     http_has_str)

\* The report of get_insights: the raw report's entries converted, an int
\* of the statistics to a float; str() of a str and float() of a float
\* give the value back.  generated_at is not taken over.
insights_report(raw_report) ==
    LET statistics == Get(raw_report, "overall_statistics")
    IN  << <<"overall_statistics",
             [i \in 1..Len(statistics) |->
                 <<statistics[i][1],
                   IF statistics[i][1] = "average_accuracy" THEN statistics[i][2]
                   ELSE FloatOfInt(statistics[i][2])>>]>>,
           <<"topic_insights", Get(raw_report, "topic_insights")>>,
           <<"weak_areas", Get(raw_report, "weak_areas")>>,
           <<"recommendations", Get(raw_report, "recommendations")>>,
           <<"uncovered_topics", Get(raw_report, "uncovered_topics")>> >>

\* JSONResponse renders its content with allow_nan=False.
render(content, has_nan) ==
    IF has_nan THEN Raise("ValueError", <<"Out of range float values are not JSON compliant">>)
    ELSE Return(content)

\* get_insights from `return JSONResponse(content=report)` on.
get_insights_with_report(report, printed) ==
    [res |-> render(report, IsNaN(Get(Get(report, "overall_statistics"), "average_accuracy"))),
     printed |-> printed]

\* get_insights from `report = {` on.
get_insights_with_raw_report(raw_report, printed) ==
    IF ~Has(raw_report, "overall_statistics")
    THEN [res |-> Raise("KeyError", <<"overall_statistics">>), printed |-> printed]
    ELSE get_insights_with_report(insights_report(raw_report), printed)

\* get_insights from raw_report's assignment on.
get_insights_with_processed_history(processed, now) ==
    IF ~processed.res.ok THEN processed
    ELSE get_insights_with_raw_report(
             generate_comprehensive_report(processed.res.value, now), processed.printed)

\* get_insights from `if not quiz_history:` on.
get_insights_with_quiz_history(quiz_history, now) ==
    IF ~quiz_history.ok THEN [res |-> quiz_history, printed |-> <<>>]
    ELSE IF quiz_history.value = <<>>
    THEN [res |-> HTTPException(404, <<"No quiz history found for user">>), printed |-> <<>>]
    ELSE get_insights_with_processed_history(process_historical_data(quiz_history.value), now)

\* The try block of get_insights, with what it printed.
try_get_insights(user_id, api_endpoint, now) ==
    get_insights_with_quiz_history(get_historical_quiz_data(api_endpoint, user_id), now)

\* GET /insights/{user_id}
get_insights(user_id, api_endpoint, now, http_has_str) ==
    except_Exception(try_get_insights(user_id, api_endpoint, now), http_has_str)

\* str(n) for any int n
str_of_signed(n) == IF n < 0 THEN <<"-">> \o str_of_int(-n) ELSE str_of_int(n)

\* The sign the handler writes before a cutoff.
LessOrEqualSign == "U+2264"

\* The colleges of the response, idx counting from 0.
college_predictions(recommended_colleges, predicted_rank) ==
    [i \in 1..Len(recommended_colleges) |->
        [name |-> recommended_colleges[i],
         probability |-> FSub(FloatLit(9, 10), FMulInt(FloatLit(1, 10), i - 1)),
         cutoff_range |-> <<LessOrEqualSign, " ">>
                              \o str_of_signed(predicted_rank + ((i - 1) * 1000))]]

\* predict_rank from response_data on.
predictions_with_recommended_colleges(user_id, predicted_rank, recommended_colleges, printed) ==
    [res |-> Return([user_id |-> user_id,
                     predicted_rank |-> predicted_rank,
                     rank_range |-> str_of_signed(predicted_rank - 500)
                                        \o <<" to ">>
                                        \o str_of_signed(predicted_rank + 500),
                     confidence_score |-> FloatLit(85, 100),
                     recommended_colleges |->
                         college_predictions(recommended_colleges, predicted_rank)]),
     printed |-> printed]

\* predict_rank from recommended_colleges' assignment on.
predictions_with_predicted_rank(user_id, predicted_rank, printed) ==
    IF ~predicted_rank.ok THEN [res |-> predicted_rank, printed |-> printed]
    ELSE predictions_with_recommended_colleges(
             user_id, predicted_rank.value, predict_colleges(predicted_rank.value), printed)

\* predict_rank from predicted_rank's assignment on; predictor is the state
\* of rank_predictor.
predictions_with_performance(user_id, predictor, accepts_nan, model_prediction, performance, printed) ==
    IF ~performance.ok THEN [res |-> performance, printed |-> printed]
    ELSE predictions_with_predicted_rank(
             user_id,
             predict_rank(predictor, performance.value, accepts_nan, model_prediction),
             printed)

\* predict_rank from performance's assignment on.
predictions_with_processed_history(user_id, predictor, accepts_nan, model_prediction, processed) ==
    IF ~processed.res.ok THEN processed
    ELSE predictions_with_performance(
             user_id, predictor, accepts_nan, model_prediction,
             analyze_student_performance(processed.res.value), processed.printed)

\* predict_rank from `if not quiz_history:` on.
predictions_with_quiz_history(user_id, predictor, accepts_nan, model_prediction, quiz_history) ==
    IF ~quiz_history.ok THEN [res |-> quiz_history, printed |-> <<>>]
    ELSE IF quiz_history.value = <<>>
    THEN [res |-> HTTPException(404, <<"No quiz history found for user">>), printed |-> <<>>]
    ELSE predictions_with_processed_history(
             user_id, predictor, accepts_nan, model_prediction,
             process_historical_data(quiz_history.value))

\* The try block of the predictions handler, with what it printed.
try_predict_rank(user_id, api_endpoint, predictor, accepts_nan, model_prediction) ==
    predictions_with_quiz_history(user_id, predictor, accepts_nan, model_prediction,
                                  get_historical_quiz_data(api_endpoint, user_id))

\* GET /predictions/{user_id}: the handler the source names predict_rank.
predictions(user_id, api_endpoint, predictor, accepts_nan, model_prediction, http_has_str) ==
    except_Exception(
        try_predict_rank(user_id, api_endpoint, predictor, accepts_nan, model_prediction),
        http_has_str)

\* difficulty_stats before the loops.
difficulty_stats ==
    << <<"Easy", [total |-> 0, correct |-> 0]>>,
       <<"Medium", [total |-> 0, correct |-> 0]>>,
       <<"Hard", [total |-> 0, correct |-> 0]>> >>

\* The loop over the questions of a quiz: difficulty_stats[level] of an
\* unknown level raises KeyError.
RECURSIVE count_questions(_, _)
count_questions(questions, stats) ==
    IF questions = <<>> THEN Return(stats)
    ELSE LET level == Head(questions).difficulty
         IN  IF ~Has(stats, level) THEN Raise("KeyError", <<level>>)
             ELSE count_questions(
                      Tail(questions),
                      Put(stats, level,
                          [total |-> Get(stats, level).total + 1,
                           correct |-> Get(stats, level).correct
                                           + (IF Head(questions).is_correct THEN 1 ELSE 0)]))

\* The loop over the raw quizzes: quiz['questions'] of a quiz without the
\* key raises KeyError.  A list of questions is a value of type "list".
RECURSIVE count_quizzes(_, _)
count_quizzes(quiz_history, stats) ==
    IF quiz_history = <<>> THEN Return(stats)
    ELSE IF "questions" \notin DOMAIN Head(quiz_history) THEN Raise("KeyError", <<"questions">>)
    ELSE LET counted == count_questions(Head(quiz_history)["questions"].v, stats)
         IN  IF ~counted.ok THEN counted
             ELSE count_quizzes(Tail(quiz_history), counted.value)

\* The data of the difficulty chart; the accuracy of a level without
\* questions is the int 0.
difficulty_distribution(stats) ==
    [i \in 1..Len(stats) |->
        [difficulty |-> stats[i][1],
         total |-> stats[i][2].total,
         correct |-> stats[i][2].correct,
         accuracy |-> IF stats[i][2].total > 0
                      THEN round(times_100(FDivInt(FloatOfInt(stats[i][2].correct),
                                                   stats[i][2].total)), 2)
                      ELSE 0]]

\* The last loop of the handler: round(v, 2) for every float of a chart's
\* data.  The floats of the five charts are the accuracy, score and gap
\* entries and the topics' entries of the improvement chart.
rounded_charts(performance_trend, topic_performance, weak_areas, improvement_trends, difficulty) ==
    [performance_trend_chart |->
         [data |-> [i \in 1..Len(performance_trend.data) |->
                       [performance_trend.data[i] EXCEPT !.accuracy = round(@, 2),
                                                         !.score = round(@, 2)]]],
     topic_performance_chart |->
         [data |-> [i \in 1..Len(topic_performance.data) |->
                       [topic_performance.data[i] EXCEPT !.accuracy = round(@, 2)]]],
     weak_areas_chart |->
         [data |-> [i \in 1..Len(weak_areas.data) |->
                       [weak_areas.data[i] EXCEPT !.accuracy = round(@, 2),
                                                  !.gap = round(@, 2)]]],
     improvement_trends_chart |->
         [data |-> [i \in 1..Len(improvement_trends.data) |->
                       [k \in 1..Len(improvement_trends.data[i]) |->
                           IF k = 1 THEN improvement_trends.data[i][k]
                           ELSE <<improvement_trends.data[i][k][1],
                                  round(improvement_trends.data[i][k][2], 2)>>]],
          series |-> improvement_trends.series],
     difficulty_distribution_chart |->
         [data |-> [i \in 1..Len(difficulty) |->
                       IF difficulty[i].total > 0
                       THEN [difficulty[i] EXCEPT !.accuracy = round(@, 2)]
                       ELSE difficulty[i]]]]

\* get_visualizations from difficulty_stats on, the charts of the
\* ChartGenerator made.
get_visualizations_with_charts(performance_trend, topic_performance, weak_areas, improvement_trends, stats, printed) ==
    IF ~improvement_trends.ok THEN [res |-> improvement_trends, printed |-> printed]
    ELSE IF ~stats.ok THEN [res |-> stats, printed |-> printed]
    ELSE [res |-> Return(rounded_charts(performance_trend, topic_performance, weak_areas,
                                        improvement_trends.value,
                                        difficulty_distribution(stats.value))),
          printed |-> printed]

\* get_visualizations from the topic_performance_chart on.
get_visualizations_with_performance_trend(quiz_history, performance, performance_trend, printed) ==
    IF ~performance_trend.ok THEN [res |-> performance_trend, printed |-> printed]
    ELSE get_visualizations_with_charts(
             performance_trend.value,
             generate_topic_performance(performance.topic_wise_accuracy),
             generate_weak_areas_chart(
                 SelectSeq(performance.topic_wise_accuracy,
                           LAMBDA item : item[1] \in Range(performance.weak_areas))),
             generate_improvement_chart(performance.improvement_trends),
             count_quizzes(quiz_history, difficulty_stats),
             printed)

\* get_visualizations from `charts = {` on.
get_visualizations_with_performance(quiz_history, performance, printed) ==
    IF ~performance.ok THEN [res |-> performance, printed |-> printed]
    ELSE get_visualizations_with_performance_trend(
             quiz_history, performance.value, generate_performance_trend(quiz_history),
             printed)

\* get_visualizations from performance's assignment on.
get_visualizations_with_processed_history(quiz_history, processed) ==
    IF ~processed.res.ok THEN processed
    ELSE get_visualizations_with_performance(
             quiz_history, analyze_student_performance(processed.res.value),
             processed.printed)

\* get_visualizations from processed_history's assignment on: the raw list
\* with the current submission appended is processed as a whole.
get_visualizations_with_quiz_history(quiz_history) ==
    get_visualizations_with_processed_history(quiz_history,
                                              process_historical_data(quiz_history))

\* get_visualizations from `if not quiz_history and not current_quiz:` on.
get_visualizations_with_current_quiz(fetched, current_quiz) ==
    IF ~fetched.ok THEN [res |-> fetched, printed |-> <<>>]
    ELSE IF ~current_quiz.ok THEN [res |-> current_quiz, printed |-> <<>>]
    ELSE IF fetched.value = <<>> /\ current_quiz.value = PyNone
    THEN [res |-> HTTPException(404, <<"No quiz data found. Please complete at least ",
                                       "one quiz first.">>),
          printed |-> <<>>]
    ELSE get_visualizations_with_quiz_history(
             IF current_quiz.value = PyNone THEN fetched.value
             ELSE Append(fetched.value, current_quiz.value))

\* The try block of get_visualizations, with what it printed.
try_get_visualizations(user_id, api_endpoint, quiz_submission) ==
    get_visualizations_with_current_quiz(
        get_historical_quiz_data(api_endpoint, user_id),
        get_current_quiz_submission(quiz_submission, user_id))

\* What the handler answers a try block that ended as `body`: every
\* exception is answered with the same detail.
visualizations_response(body) ==
    [res |-> IF body.res.ok THEN JSONResponse(body.res.value)
             ELSE Response(500, [detail |-> <<"Could not generate visualizations. ",
                                              "Please try again.">>]),
     printed |-> body.printed]

\* GET /visualizations/{user_id}
get_visualizations(user_id, api_endpoint, quiz_submission) ==
    visualizations_response(try_get_visualizations(user_id, api_endpoint, quiz_submission))

(***************************************************************************)
(* Raw payloads the data source can hand to the DataProcessor.             *)
(***************************************************************************)
RawSubmission(id, topic, accuracy, submitted_at) ==
    [id |-> PyInt(<<id>>),
     quiz_id |-> PyInt(<<"7">>),
     user_id |-> PyStr(<<"u", "1">>),
     submitted_at |-> PyStr(submitted_at),
     score |-> PyStr(<<"3", "2">>),
     accuracy |-> PyStr(accuracy),
     final_score |-> PyStr(<<"4", "0">>),
     quiz |-> PyDict(<<topic>>)]

Day1 == <<DateTimes[1]>>
Day2 == <<DateTimes[2]>>
Day2Z == <<DateTimes[2], "Z">>

\* A payload without some of its keys.
Without(raw, keys) == [k \in DOMAIN raw \ keys |-> raw[k]]
\* A payload with one value replaced.
With(raw, key, value) == [raw EXCEPT ![key] = value]

Raw1 == RawSubmission("1", "Physiology", <<"8", "0", "%">>, Day1)
Raw2 == RawSubmission("2", "Physiology", <<"6", "0", "%">>, Day2)
Raw3 == RawSubmission("3", "Genetics", <<"3", "0", "%">>, Day2)

Raw4 == RawSubmission("4", "Genetics", <<"7", "0", "%">>, Day2)
Raw6 == RawSubmission("6", "physiology", <<"8", "0", "%">>, Day1)
RawUtc == RawSubmission("7", "Physiology", <<"6", "0", "%">>, Day2Z)

\* Payloads whose required fields are all present, one of them malformed.
RawBadTimestamp == With(RawSubmission("4", "Genetics", <<"7", "0", "%">>, Day1),
                        "submitted_at", PyStr(<<"yesterday">>))
RawIntTimestamp == With(RawSubmission("5", "Genetics", <<"7", "0", "%">>, Day1),
                        "submitted_at", PyInt(<<"1", "7", "0", "4">>))
RawBadScore == With(RawSubmission("6", "Genetics", <<"7", "0", "%">>, Day1),
                    "score", PyStr(<<"n", "/", "a">>))
RawNoneScore == With(RawSubmission("7", "Genetics", <<"7", "0", "%">>, Day1),
                     "score", PyNone)
RawStrQuiz == With(RawSubmission("8", "Genetics", <<"7", "0", "%">>, Day1),
                   "quiz", PyStr(<<"Genetics">>))
\* Payloads whose accuracy is not a percentage text.
RawBareAccuracy == RawSubmission("9", "Genetics", <<"8", "0">>, Day1)
RawTextAccuracy == RawSubmission("9", "Genetics", <<"h", "i", "g", "h">>, Day2)
RawNoneAccuracy == With(RawSubmission("9", "Genetics", <<"8", "0", "%">>, Day1),
                        "accuracy", PyNone)
\* A payload whose nested quiz object has no topic.
RawNoTopic == With(Raw1, "quiz", PyDict(<<>>))

AllKeys == {required_fields[i] : i \in 1..Len(required_fields)} \cup {"quiz"}

FullRecords ==
    {Raw1, Raw2, Raw3, RawUtc, RawBadTimestamp, RawIntTimestamp, RawBadScore, RawNoneScore,
     RawStrQuiz, RawBareAccuracy, RawTextAccuracy, RawNoneAccuracy, RawNoTopic}

\* The arguments of a single preprocess_quiz_submission call: every
\* payload above with every subset of its keys absent.
RawRecords == {Without(r, K) : r \in FullRecords, K \in SUBSET AllKeys}

\* The records of a batch.
BatchPool ==
    {Raw1, Raw2, Raw3,
     Without(Raw1, {"accuracy"}), Without(Raw3, {"id", "final_score"}),
     RawBadTimestamp, RawIntTimestamp, RawBadScore, RawNoneScore, RawStrQuiz}

MaxBatch == 3

\* The submissions of a history: what preprocess_quiz_submission returns for
\* payloads of the data source.
HistoryPool ==
    {preprocess_quiz_submission(raw).value :
        raw \in {Raw1, Raw2, Raw3, Raw4, Raw6, RawUtc, RawTextAccuracy}}

MaxHistory == 4

RECURSIVE SeqsUpTo(_, _)
SeqsUpTo(S, n) ==
    IF n = 0 THEN {<<>>}
    ELSE LET shorter == SeqsUpTo(S, n - 1)
         IN  shorter \cup {Append(q, x) : q \in {r \in shorter : Len(r) = n - 1}, x \in S}

RawBatches == SeqsUpTo(BatchPool, MaxBatch)
Histories == SeqsUpTo(HistoryPool, MaxHistory)

\* The quizzes behind the performances handed to the RankPredictor: three
\* topics, two quizzes at the same time with different final scores, a
\* final score that is null.
ScoredSubmission(id, topic, accuracy, submitted_at, final_score) ==
    With(RawSubmission(id, topic, accuracy, submitted_at), "final_score", final_score)
Day3 == <<DateTimes[3]>>
Scored1 == ScoredSubmission("1", "Physiology", <<"9", "0", "%">>, Day1, PyStr(<<"4", "0">>))
Scored2 == ScoredSubmission("2", "Physiology", <<"2", "0", "%">>, Day2, PyStr(<<"5", "5">>))
Scored3 == ScoredSubmission("3", "Genetics", <<"9", "0", "%">>, Day2, PyStr(<<"2", "5">>))
Scored4 == ScoredSubmission("4", "Reproduction", <<"9", "0", "%">>, Day3, PyStr(<<"7", "0">>))
Scored5 == ScoredSubmission("5", "Genetics", <<"3", "0", "%">>, Day1, PyNone)
ScoredPool ==
    {preprocess_quiz_submission(raw).value :
        raw \in {Scored1, Scored2, Scored3, Scored4, Scored5}}

\* The StudentPerformance of a history.
Performance(raws) ==
    analyze_student_performance(
        [i \in 1..Len(raws) |-> preprocess_quiz_submission(raws[i]).value]).value
PerformancesUpTo(n) ==
    {analyze_student_performance(quiz_history).value :
        quiz_history \in SeqsUpTo(ScoredPool, n) \ {<<>>}}

\* The performances _extract_features is applied to, and those handed to
\* predict_rank.
MaxFeatureHistory == 4
MaxPredictHistory == 2
FeaturePerformances == PerformancesUpTo(MaxFeatureHistory)
PredictPerformances == PerformancesUpTo(MaxPredictHistory)

\* The training data: two performances with every feature defined; one
\* whose topics have a single quiz each; none; one whose latest quiz has no
\* final score.
TrainingSets ==
    { << <<Performance(<<Scored1, Scored2>>), 100>>,
         <<Performance(<<Scored2, Scored1, Scored3>>), 101>> >>,
      << <<Performance(<<Scored1>>), 100>> >>,
      <<>>,
      << <<Performance(<<Scored5, Scored1>>), 100>> >> }

\* Histories with a percentage above 100 or below 0, which the DataProcessor
\* passes on as it does any accuracy.
RawAbove == RawSubmission("8", "Genetics", <<"1", "5", "0", "%">>, Day1)
RawBelow == RawSubmission("9", "Genetics", <<"-", "5", "%">>, Day2)
OutOfRangeHistories ==
    {process_historical_data(raw_data).res.value :
        raw_data \in {<<RawAbove>>, <<RawBelow>>, <<RawAbove, RawBelow>>,
                      <<Raw1, RawAbove>>, <<RawBelow, Raw3, Raw4>>}}

\* The users who ask, the last of them unknown to the data source.
UserIds == {<<"u", "1">>, <<"u", "2">>, <<"u", "9">>}
OfUser(raw, user_id) == With(raw, "user_id", PyStr(user_id))

\* Quizzes that carry their questions and a date without a time.
Question(difficulty, is_correct) == [difficulty |-> difficulty, is_correct |-> is_correct]
WithQuestions(raw, questions) ==
    [k \in DOMAIN raw \cup {"questions"} |->
        IF k = "questions" THEN [type |-> "list", v |-> questions] ELSE raw[k]]
RawCharted1 ==
    WithQuestions(RawSubmission("1", "Physiology", <<"8", "0", "%">>, <<DateTimes[5]>>),
                  <<Question("Easy", TRUE), Question("Hard", FALSE), Question("Easy", FALSE)>>)
RawCharted2 ==
    WithQuestions(RawSubmission("2", "Genetics", <<"5", "0", "%">>, <<DateTimes[4]>>),
                  <<Question("Hard", TRUE)>>)
\* A quiz with a question of a level difficulty_stats does not know.
RawCharted3 ==
    WithQuestions(RawSubmission("3", "Genetics", <<"5", "0", "%">>, <<DateTimes[4]>>),
                  <<Question("Easy", TRUE), Question("Tricky", TRUE)>>)

\* The records of api_endpoint.json: quizzes of two users, one that lacks a
\* required field, one whose timestamp is a number, one without a user.
ApiPool ==
    {Raw1, Raw3, OfUser(Raw2, <<"u", "2">>), Without(Raw1, {"accuracy"}), RawIntTimestamp,
     Without(Raw2, {"user_id"}), With(Raw3, "final_score", PyNone), RawTextAccuracy,
     RawCharted1, RawCharted2}
MaxFileRecords == 2
ApiEndpointFiles == {NoFile} \cup {File(data) : data \in SeqsUpTo(ApiPool, MaxFileRecords)}
QuizSubmissionFiles ==
    {NoFile, File(Raw2), File(OfUser(Raw4, <<"u", "2">>)), File(Without(Raw1, {"accuracy"})),
     File(RawCharted1), File(RawCharted3)}

\* The improvement trends handed to the ChartGenerator: those of the
\* performances of histories over two topics.
ChartPool ==
    {preprocess_quiz_submission(raw).value : raw \in {Raw1, Raw2, Raw3, Raw4}}
MaxChartHistory == 4
ImprovementTrends ==
    {analyze_student_performance(quiz_history).value.improvement_trends :
        quiz_history \in SeqsUpTo(ChartPool, MaxChartHistory) \ {<<>>}}

\* The readings of the clock: datetime.now().isoformat() at two moments.
Nows == {<<"2024-02-01T10:00:00.000001">>, <<"2024-02-01T10:00:00.000002">>}

(***************************************************************************)
(* The state machine.                                                      *)
(***************************************************************************)
\* The RankPredictor instances of the process.
Instances == {1, 2}

Init ==
    /\ op = "idle"
    /\ arg = <<>>
    /\ result = Return(<<>>)
    /\ stdout = <<>>
    /\ caller_list = <<>>
    /\ earlier = <<>>
    /\ predictors = [self \in Instances |-> RankPredictor]

\* The caller takes the outcome and drops its list; the components are
\* ready for the next call.
Finish ==
    /\ op # "idle"
    /\ op' = "idle"
    /\ arg' = <<>>
    /\ result' = Return(<<>>)
    /\ stdout' = <<>>
    /\ caller_list' = <<>>
    /\ earlier' = <<>>
    /\ UNCHANGED predictors

Call_preprocess_quiz_submission ==
    /\ op = "idle"
    /\ \E raw_data \in RawRecords :
           /\ op' = "preprocess_quiz_submission"
           /\ arg' = raw_data
           /\ result' = preprocess_quiz_submission(raw_data)
           /\ stdout' = <<>>
    /\ UNCHANGED <<caller_list, earlier, predictors>>

Call_process_historical_data ==
    /\ op = "idle"
    /\ \E raw_data \in RawBatches :
           LET r == process_historical_data(raw_data)
           IN  /\ op' = "process_historical_data"
               /\ arg' = raw_data
               /\ result' = r.res
               /\ stdout' = r.printed
    /\ UNCHANGED <<caller_list, earlier, predictors>>

Call_analyze_student_performance ==
    /\ op = "idle"
    /\ \E quiz_history \in Histories \cup OutOfRangeHistories :
           /\ op' = "analyze_student_performance"
           /\ arg' = quiz_history
           /\ result' = analyze_student_performance(quiz_history)
           /\ stdout' = <<>>
           /\ caller_list' = list_after_analysis(quiz_history)
    /\ earlier' = <<>>
    /\ UNCHANGED predictors

\* The caller calls analyze_student_performance once more, with the list
\* the first call left.
Call_analyze_student_performance_again ==
    /\ op = "analyze_student_performance"
    /\ earlier = <<>>
    /\ op' = "analyze_student_performance"
    /\ arg' = caller_list
    /\ result' = analyze_student_performance(caller_list)
    /\ stdout' = <<>>
    /\ caller_list' = list_after_analysis(caller_list)
    /\ earlier' = <<result>>
    /\ UNCHANGED predictors

\* logging writes to stderr; nothing is printed.
Call_generate_comprehensive_report ==
    /\ op = "idle"
    /\ \E quiz_history \in Histories, now \in Nows :
           /\ op' = "generate_comprehensive_report"
           /\ arg' = quiz_history
           /\ result' = Return(generate_comprehensive_report(quiz_history, now))
           /\ stdout' = <<>>
    /\ UNCHANGED <<caller_list, earlier, predictors>>

\* _extract_features applied to a performance; it reads the predictor's
\* state not at all.
Call__extract_features ==
    /\ op = "idle"
    /\ \E performance \in FeaturePerformances :
           /\ op' = "_extract_features"
           /\ arg' = performance
           /\ result' = _extract_features(performance)
           /\ stdout' = <<>>
    /\ UNCHANGED <<caller_list, earlier, predictors>>

Call_train ==
    /\ op = "idle"
    /\ \E self \in Instances, training_data \in TrainingSets, accepts_nan \in BOOLEAN :
           LET r == train(predictors[self], training_data, accepts_nan)
           IN  /\ op' = "train"
               /\ arg' = [self |-> self, training_data |-> training_data]
               /\ result' = r.res
               /\ stdout' = <<>>
               /\ predictors' = [predictors EXCEPT ![self] = r.predictor]
    /\ UNCHANGED <<caller_list, earlier>>

Call_predict_rank ==
    /\ op = "idle"
    /\ \E self \in Instances, performance \in PredictPerformances, accepts_nan \in BOOLEAN :
           \E predicted_rank \in Predictions(predictors[self].model) :
               /\ op' = "predict_rank"
               /\ arg' = [self |-> self, performance |-> performance]
               /\ result' = predict_rank(predictors[self], performance, accepts_nan,
                                          predicted_rank)
               /\ stdout' = <<>>
    /\ UNCHANGED <<caller_list, earlier, predictors>>

Call_predict_colleges ==
    /\ op = "idle"
    /\ \E self \in Instances :
       \E predicted_rank \in {5000} \cup Predictions(predictors[self].model) :
           /\ op' = "predict_colleges"
           /\ arg' = [self |-> self, predicted_rank |-> predicted_rank]
           /\ result' = Return(predict_colleges(predicted_rank))
           /\ stdout' = <<>>
    /\ UNCHANGED <<caller_list, earlier, predictors>>

\* A request: the handler reads the files as they are when it runs.
Call_analyze_performance ==
    /\ op = "idle"
    /\ \E user_id \in UserIds, api_endpoint \in ApiEndpointFiles,
          quiz_submission \in QuizSubmissionFiles, http_has_str \in BOOLEAN :
           \E r \in {analyze_performance(user_id, api_endpoint, quiz_submission, http_has_str)} :
               /\ op' = "analyze_performance"
               /\ arg' = [user_id |-> user_id, api_endpoint |-> api_endpoint,
                          quiz_submission |-> quiz_submission]
               /\ result' = r.res
               /\ stdout' = r.printed
    /\ UNCHANGED <<caller_list, earlier, predictors>>

Call_get_insights ==
    /\ op = "idle"
    /\ \E user_id \in UserIds, api_endpoint \in ApiEndpointFiles, now \in Nows,
          http_has_str \in BOOLEAN :
           \E r \in {get_insights(user_id, api_endpoint, now, http_has_str)} :
               /\ op' = "get_insights"
               /\ arg' = [user_id |-> user_id, api_endpoint |-> api_endpoint]
               /\ result' = r.res
               /\ stdout' = r.printed
    /\ UNCHANGED <<caller_list, earlier, predictors>>

\* The handler asks the one RankPredictor of the process.
rank_predictor == 1
Call_predictions ==
    /\ op = "idle"
    /\ \E user_id \in UserIds, api_endpoint \in ApiEndpointFiles, accepts_nan \in BOOLEAN,
          http_has_str \in BOOLEAN :
       \E model_prediction \in Predictions(predictors[rank_predictor].model) :
           \E r \in {predictions(user_id, api_endpoint, predictors[rank_predictor],
                                   accepts_nan, model_prediction, http_has_str)} :
               /\ op' = "predictions"
               /\ arg' = [user_id |-> user_id, api_endpoint |-> api_endpoint]
               /\ result' = r.res
               /\ stdout' = r.printed
    /\ UNCHANGED <<caller_list, earlier, predictors>>

Call_generate_improvement_chart ==
    /\ op = "idle"
    /\ \E improvement_data \in ImprovementTrends :
           /\ op' = "generate_improvement_chart"
           /\ arg' = improvement_data
           /\ result' = generate_improvement_chart(improvement_data)
           /\ stdout' = <<>>
    /\ UNCHANGED <<caller_list, earlier, predictors>>

Call_get_visualizations ==
    /\ op = "idle"
    /\ \E user_id \in UserIds, api_endpoint \in ApiEndpointFiles,
          quiz_submission \in QuizSubmissionFiles :
           \E r \in {get_visualizations(user_id, api_endpoint, quiz_submission)} :
               /\ op' = "get_visualizations"
               /\ arg' = [user_id |-> user_id, api_endpoint |-> api_endpoint,
                          quiz_submission |-> quiz_submission]
               /\ result' = r.res
               /\ stdout' = r.printed
    /\ UNCHANGED <<caller_list, earlier, predictors>>

NextNormalizer ==
    \/ Call_preprocess_quiz_submission
    \/ Call_process_historical_data
    \/ Finish

SpecNormalizer == Init /\ [][NextNormalizer]_vars

NextAnalyzer ==
    \/ Call_analyze_student_performance
    \/ Finish

SpecAnalyzer == Init /\ [][NextAnalyzer]_vars

NextFeatures ==
    \/ Call__extract_features
    \/ Finish

SpecFeatures == Init /\ [][NextFeatures]_vars

NextPredictor ==
    \/ Call_train
    \/ Call_predict_rank
    \/ Call_predict_colleges
    \/ Finish

SpecPredictor == Init /\ [][NextPredictor]_vars

NextAnalyzerTwice ==
    \/ Call_analyze_student_performance
    \/ Call_analyze_student_performance_again
    \/ Finish

SpecAnalyzerTwice == Init /\ [][NextAnalyzerTwice]_vars

NextInsights ==
    \/ Call_generate_comprehensive_report
    \/ Finish

SpecInsights == Init /\ [][NextInsights]_vars

NextCharts ==
    \/ Call_generate_improvement_chart
    \/ Finish

SpecCharts == Init /\ [][NextCharts]_vars

NextApp ==
    \/ Call_analyze_performance
    \/ Call_get_insights
    \/ Call_predictions
    \/ Call_get_visualizations
    \/ Finish

SpecApp == Init /\ [][NextApp]_vars

Next ==
    \/ Call_preprocess_quiz_submission
    \/ Call_process_historical_data
    \/ Call_analyze_student_performance
    \/ Call_analyze_student_performance_again
    \/ Call_generate_comprehensive_report
    \/ Call__extract_features
    \/ Call_train
    \/ Call_predict_rank
    \/ Call_predict_colleges
    \/ Call_analyze_performance
    \/ Call_get_insights
    \/ Call_predictions
    \/ Call_get_visualizations
    \/ Call_generate_improvement_chart
    \/ Finish

Spec == Init /\ [][Next]_vars

(***************************************************************************)
(* Properties of the DataProcessor.                                        *)
(***************************************************************************)
SevenRequired ==
    {"id", "quiz_id", "user_id", "submitted_at", "score", "accuracy", "final_score"}
LacksRequired(raw) == SevenRequired \ DOMAIN raw # {}

\* A timestamp text is ISO-8601: a date-time, alone or with "Z" or "+00:00".
IsIsoText(x) ==
    /\ x.type = "str"
    /\ Len(x.v) \in {1, 2}
    /\ IsDateTime(x.v[1])
    /\ Len(x.v) = 2 => x.v[2] \in {"Z", "+00:00"}
IsNumeric(x) ==
    \/ x.type = "int"
    \/ /\ x.type = "str"
       /\ x.v # <<>>
       /\ \A i \in 1..Len(x.v) : IsDigit(x.v[i])
\* Every required field is present and well formed.
WellFormedRaw(raw) ==
    /\ ~LacksRequired(raw)
    /\ IsIsoText(raw["submitted_at"])
    /\ IsNumeric(raw["score"])
    /\ "quiz" \in DOMAIN raw => raw["quiz"].type = "dict"
\* A percentage text: digits followed by '%'.
IsPercentText(x) ==
    /\ x.type = "str"
    /\ Len(x.v) >= 2
    /\ x.v[Len(x.v)] = "%"
    /\ \A i \in 1..(Len(x.v) - 1) : IsDigit(x.v[i])
Ids(records) == [i \in 1..Len(records) |-> records[i].id]

\* C1: preprocess_quiz_submission, called on a payload that lacks at least
\* one of the seven required fields, raises a ValueError whose message
\* names a field the payload lacks, and returns no QuizSubmission.
C1_MissingFieldRejected ==
    (op = "preprocess_quiz_submission" /\ LacksRequired(arg))
        => /\ ~result.ok
           /\ result.exc = "ValueError"
           /\ Len(result.msg) = 2
           /\ result.msg[1] = "Missing required field: "
           /\ result.msg[2] \in SevenRequired \ DOMAIN arg
\* A payload with a malformed timestamp that also lacks its accuracy was
\* rejected for the missing accuracy.
C1_Witness ==
    /\ op = "preprocess_quiz_submission"
    /\ DOMAIN arg = (SevenRequired \cup {"quiz"}) \ {"accuracy"}
    /\ arg["submitted_at"].type = "int"
    /\ result = Raise("ValueError", <<"Missing required field: ", "accuracy">>)

\* C2: process_historical_data over a batch made only of records that lack
\* a required field and of well-formed records returns exactly the
\* well-formed ones, in their input order, and prints one line per skipped
\* record.
C2_BatchKeepsValidInOrder ==
    (op = "process_historical_data"
        /\ \A i \in 1..Len(arg) : WellFormedRaw(arg[i]) \/ LacksRequired(arg[i]))
        => /\ result.ok
           /\ Ids(result.value) = Ids(SelectSeq(arg, WellFormedRaw))
           /\ Len(stdout) = Len(SelectSeq(arg, LacksRequired))
\* A batch valid, invalid, valid (two different valid records) returned two.
C2_Witness ==
    /\ op = "process_historical_data"
    /\ Len(arg) = 3
    /\ WellFormedRaw(arg[1]) /\ LacksRequired(arg[2]) /\ WellFormedRaw(arg[3])
    /\ arg[1] # arg[3]
    /\ result.ok
    /\ Ids(result.value) = <<arg[1]["id"], arg[3]["id"]>>

\* C3: process_historical_data never aborts the batch because of one
\* record: whatever is malformed in a record, the call returns, and returns
\* every well-formed record of the batch.
C3_MalformedRecordSkipped ==
    op = "process_historical_data"
        => /\ result.ok
           /\ Ids(result.value) = Ids(SelectSeq(arg, WellFormedRaw))

\* C4: preprocess_quiz_submission fails for every payload whose accuracy is
\* not a percentage text, so a returned QuizSubmission carries an accuracy
\* that is digits followed by '%'.
C4_AccuracyValidated ==
    /\ (op = "preprocess_quiz_submission" /\ "accuracy" \in DOMAIN arg
            /\ ~IsPercentText(arg["accuracy"])) => ~result.ok
    /\ (op = "preprocess_quiz_submission" /\ result.ok)
            => IsPercentText(result.value.accuracy)

(***************************************************************************)
(* Properties of the PerformanceAnalyzer.                                  *)
(***************************************************************************)
Analyzed == op = "analyze_student_performance" /\ result.ok
TopicsOf(history) == {history[i].topic : i \in 1..Len(history)}
OfTopic(history, t) == SelectSeq(history, LAMBDA quiz : quiz.topic = t)
KeySet(d) == {d[i][1] : i \in 1..Len(d)}

\* The percentage a percentage text states, and its sum over a history.
PercentOf(quiz) ==
    LET number == SubSeq(quiz.accuracy.v, 1, Len(quiz.accuracy.v) - 1)
    IN  IF number[1] = "-" THEN -DecimalValue(Tail(number)) ELSE DecimalValue(number)
RECURSIVE SumPercent(_)
SumPercent(history) ==
    IF history = <<>> THEN 0 ELSE PercentOf(Head(history)) + SumPercent(Tail(history))
\* The double a percentage is as a fraction, and the sum of the fractions of
\* a history from left to right.
FractionOf(quiz) == FloatLit(PercentOf(quiz), 100)
RECURSIVE SumFraction(_)
SumFraction(history) ==
    IF history = <<>> THEN FZero
    ELSE FAdd(SumFraction(SubSeq(history, 1, Len(history) - 1)),
              FractionOf(history[Len(history)]))

\* C5: analyze_student_performance raises the empty-history ValueError for
\* the empty history and for no other history.
C5_EmptyHistoryError ==
    op = "analyze_student_performance"
        => (arg = <<>> <=> result = Raise("ValueError", <<"Quiz history is empty">>))
\* The call on the empty history raised.
C5_Witness ==
    /\ op = "analyze_student_performance"
    /\ arg = <<>>
    /\ ~result.ok

\* C6: generate_comprehensive_report called with the empty history does
\* not raise: it returns a report whose only entries are the error marker
\* 'No quiz history available' and the generation timestamp.
C6_EmptyHistoryReport ==
    (op = "generate_comprehensive_report" /\ arg = <<>>)
        => /\ result.ok
           /\ Keys(result.value) = <<"error", "generated_at">>
           /\ Get(result.value, "error") = <<"No quiz history available">>
           /\ Get(result.value, "generated_at") \in Nows
\* The call on the empty history returned a report with an error marker.
C6_Witness ==
    /\ op = "generate_comprehensive_report"
    /\ arg = <<>>
    /\ result.ok
    /\ Has(result.value, "error")
    /\ ~Has(result.value, "overall_statistics")

\* C7: the weak areas of a returned StudentPerformance are exactly the
\* topics whose mean accuracy is below 60%, each listed once; a topic whose
\* mean is exactly 60% is not listed.
C7_WeakAreasExact ==
    Analyzed
        => /\ Range(result.value.weak_areas) =
                {t \in TopicsOf(arg) :
                    SumPercent(OfTopic(arg, t)) < 60 * Len(OfTopic(arg, t))}
           /\ Len(result.value.weak_areas) = Cardinality(Range(result.value.weak_areas))

\* C8: topic_wise_accuracy and improvement_trends have the same keys, the
\* topics of the history, and a topic's trend is as long as the number of
\* its submissions.
C8_TrendsCoverTopics ==
    Analyzed
        => /\ KeySet(result.value.topic_wise_accuracy) = KeySet(result.value.improvement_trends)
           /\ KeySet(result.value.improvement_trends) = TopicsOf(arg)
           /\ \A t \in TopicsOf(arg) :
                  Len(Get(result.value.improvement_trends, t)) = Len(OfTopic(arg, t))
\* A history with a topic submitted once and a topic submitted twice.
C8_Witness ==
    /\ Analyzed
    /\ \E t, u \in TopicsOf(arg) :
           /\ Len(OfTopic(arg, t)) = 1
           /\ Len(OfTopic(arg, u)) = 2
           /\ Len(Get(result.value.improvement_trends, t)) = 1

\* C9: a topic's trend lists its accuracies by ascending submission time,
\* submissions of equal time in their input order: the submission at
\* position i of the history stands in the trend after exactly the
\* submissions of its topic that are earlier, or as early and before it in
\* the input.
Before(history, j, i) ==
    \/ history[j].submitted_at.t < history[i].submitted_at.t
    \/ history[j].submitted_at.t = history[i].submitted_at.t /\ j < i
RankInTopic(history, i) ==
    1 + Cardinality({j \in 1..Len(history) :
                        history[j].topic = history[i].topic /\ Before(history, j, i)})
C9_TrendChronologicalStable ==
    Analyzed
        => \A i \in 1..Len(arg) :
               LET trend == Get(result.value.improvement_trends, arg[i].topic)
               IN  /\ RankInTopic(arg, i) <= Len(trend)
                   /\ trend[RankInTopic(arg, i)] = FractionOf(arg[i])
\* Two submissions of a topic at the same time with different accuracies,
\* and two submissions of another topic, the later one first in the input.
C9_Witness ==
    /\ Analyzed
    /\ \E i, j, k, l \in 1..Len(arg) :
           /\ i < j /\ k < l
           /\ arg[i].topic = arg[j].topic /\ arg[k].topic = arg[l].topic
           /\ arg[i].submitted_at.t = arg[j].submitted_at.t
           /\ arg[i].accuracy # arg[j].accuracy
           /\ arg[l].submitted_at.t < arg[k].submitted_at.t
           /\ Get(result.value.improvement_trends, arg[i].topic) =
                  <<FractionOf(arg[i]), FractionOf(arg[j])>>
           /\ Get(result.value.improvement_trends, arg[k].topic) =
                  <<FractionOf(arg[l]), FractionOf(arg[k])>>

\* C10: topic_wise_accuracy has one entry per topic of the history, topics
\* told apart by exact string equality, and a topic's value is the sum of
\* the accuracies of its own submissions, in input order, divided by their
\* number; Physiology 80% and 60% with Genetics 30% give 0.70 and 0.30.
C10_TopicMeans ==
    Analyzed
        => /\ KeySet(result.value.topic_wise_accuracy) = TopicsOf(arg)
           /\ Len(result.value.topic_wise_accuracy) = Cardinality(TopicsOf(arg))
           /\ \A t \in TopicsOf(arg) :
                  Get(result.value.topic_wise_accuracy, t) =
                      FDivInt(SumFraction(OfTopic(arg, t)), Len(OfTopic(arg, t)))
           /\ ( /\ TopicsOf(arg) = {"Physiology", "Genetics"}
                /\ Len(OfTopic(arg, "Physiology")) = 2
                /\ SumPercent(OfTopic(arg, "Physiology")) = 140
                /\ Len(OfTopic(arg, "Genetics")) = 1
                /\ SumPercent(OfTopic(arg, "Genetics")) = 30 )
              => /\ Get(result.value.topic_wise_accuracy, "Physiology") = FloatLit(70, 100)
                 /\ Get(result.value.topic_wise_accuracy, "Genetics") = FloatLit(30, 100)
\* The history Physiology 80%, Physiology 60%, Genetics 30%, and with it a
\* submission of the topic "physiology", which has an entry of its own.
C10_Witness ==
    /\ Analyzed
    /\ Len(arg) = 4
    /\ <<arg[1].topic, arg[2].topic, arg[3].topic, arg[4].topic>> =
           <<"Physiology", "Physiology", "Genetics", "physiology">>
    /\ <<PercentOf(arg[1]), PercentOf(arg[2]), PercentOf(arg[3])>> = <<80, 60, 30>>
    /\ Keys(result.value.topic_wise_accuracy) = <<"Physiology", "Genetics", "physiology">>
    /\ Get(result.value.topic_wise_accuracy, "Physiology") = FloatLit(7, 10)

\* C11: analyze_student_performance leaves the caller's list as it was
\* given, elements and order, and a second call on that list returns the
\* topic means and the weak areas the first call returned.
C11_AggregateTwiceSame ==
    op = "analyze_student_performance"
        => /\ caller_list = arg
           /\ earlier # <<>>
                => /\ earlier[1].ok = result.ok
                   /\ result.ok
                        => /\ result.value.topic_wise_accuracy =
                                  earlier[1].value.topic_wise_accuracy
                           /\ Range(result.value.weak_areas) =
                                  Range(earlier[1].value.weak_areas)
\* A second call returned for a list that is not in timestamp order and
\* has a weak topic.
C11_Witness ==
    /\ Analyzed
    /\ earlier # <<>>
    /\ \E i, j \in 1..Len(arg) :
           i < j /\ arg[j].submitted_at.t < arg[i].submitted_at.t
    /\ result.value.weak_areas # <<>>
    /\ result.value.topic_wise_accuracy = earlier[1].value.topic_wise_accuracy

(***************************************************************************)
(* Properties of the RankPredictor.                                        *)
(***************************************************************************)
\* C12: predict_rank on an instance that is not trained returns 5000 for
\* every performance and does not raise.
C12_UntrainedPlaceholder ==
    (op = "predict_rank" /\ ~predictors[arg.self].is_trained)
        => result = Return(5000)
\* An untrained instance answered 5000 for a performance of two topics at
\* 90% without a weak area, while the other instance was trained.
C12_Witness ==
    /\ op = "predict_rank"
    /\ ~predictors[arg.self].is_trained
    /\ \E other \in Instances : predictors[other].is_trained
    /\ Len(arg.performance.topic_wise_accuracy) = 2
    /\ \A i \in 1..2 : arg.performance.topic_wise_accuracy[i][2] = FloatLit(9, 10)
    /\ arg.performance.weak_areas = <<>>
    /\ result = Return(5000)

\* The mean of a list of doubles, added from left to right.
RECURSIVE SumOf(_)
SumOf(s) ==
    IF s = <<>> THEN FZero ELSE FAdd(SumOf(SubSeq(s, 1, Len(s) - 1)), s[Len(s)])
MeanOf(s) == FDivInt(SumOf(s), Len(s))
\* last - first of the trends that have two values or more.
Deltas(performance) ==
    LET multi == SelectSeq(performance.improvement_trends, LAMBDA item : Len(item[2]) >= 2)
    IN  [i \in 1..Len(multi) |-> FSub(multi[i][2][Len(multi[i][2])], multi[i][2][1])]
AllFractions(performance) ==
    [i \in 1..Len(performance.quiz_history) |-> FractionOf(performance.quiz_history[i])]

\* C18: the features _extract_features returns are four, in this order:
\* the mean of the per-topic means, the number of weak areas, the mean of
\* last - first over the trends of two values or more (when there is such
\* a trend), and the final score of a quiz of the greatest timestamp.
C18_FeatureVector ==
    (op = "_extract_features" /\ result.ok)
        => /\ Len(result.value) = 4
           /\ result.value[1] =
                  MeanOf([i \in 1..Len(arg.topic_wise_accuracy) |-> arg.topic_wise_accuracy[i][2]])
           /\ result.value[2] = FloatOfInt(Len(arg.weak_areas))
           /\ Deltas(arg) # <<>> => result.value[3] = MeanOf(Deltas(arg))
           /\ \E i \in 1..Len(arg.quiz_history) :
                  /\ \A j \in 1..Len(arg.quiz_history) :
                         arg.quiz_history[j].submitted_at.t <= arg.quiz_history[i].submitted_at.t
                  /\ float(arg.quiz_history[i].final_score).ok
                  /\ result.value[4] = float(arg.quiz_history[i].final_score).value
\* A performance with a topic of two quizzes, a topic of one quiz, a weak
\* area, topics of unequal numbers of quizzes and two latest quizzes with
\* different final scores.
C18_Witness ==
    /\ op = "_extract_features"
    /\ result.ok
    /\ \E i, j \in 1..Len(arg.improvement_trends) :
           Len(arg.improvement_trends[i][2]) = 1 /\ Len(arg.improvement_trends[j][2]) = 2
    /\ arg.weak_areas # <<>>
    /\ result.value[1] # MeanOf(AllFractions(arg))
    /\ result.value[3] = MeanOf(Deltas(arg))
    /\ \E i, j \in 1..Len(arg.quiz_history) :
           /\ arg.quiz_history[i].submitted_at.t = arg.quiz_history[j].submitted_at.t
           /\ arg.quiz_history[i].final_score # arg.quiz_history[j].final_score
           /\ \A k \in 1..Len(arg.quiz_history) :
                  arg.quiz_history[k].submitted_at.t <= arg.quiz_history[i].submitted_at.t

\* C19: is_trained and the model of an instance change only in a train
\* call on that instance that returned, which leaves it trained; a trained
\* instance stays trained.  So predict_rank and predict_colleges change
\* neither, and a train call on one instance changes no other instance.
C19_ModeChangesOnlyByTrain ==
    [][\A self \in Instances :
          /\ predictors[self].is_trained => predictors'[self].is_trained
          /\ predictors'[self] # predictors[self]
                => /\ op' = "train"
                   /\ arg'.self = self
                   /\ result'.ok
                   /\ predictors'[self].is_trained]_vars
\* predict_rank answered from the model of a trained instance while the
\* other instance, whose own train call never returned, is untrained.
C19_Witness ==
    /\ op = "predict_rank"
    /\ predictors[arg.self].is_trained
    /\ result.ok
    /\ result.value \in Predictions(predictors[arg.self].model)
    /\ \E other \in Instances : ~predictors[other].is_trained

(***************************************************************************)
(* Properties of the InsightGenerator on a history that is not empty.      *)
(***************************************************************************)
\* generate_comprehensive_report ran on a history that is not empty and
\* whose accuracies are all percentage texts.
Synthesized ==
    /\ op = "generate_comprehensive_report"
    /\ arg # <<>>
    /\ \A i \in 1..Len(arg) : IsPercentText(arg[i].accuracy)
\* An entry of the report, and the insight of a topic in it.
Entry(key) == Get(result.value, key)
Insight(t) == Get(Entry("topic_insights"), t)
\* The status and the recommendation of a topic whose quizzes have the
\* percentages of sum p over n quizzes.
StatusOf(p, n) ==
    IF p >= 75 * n THEN "Good"
    ELSE IF p <= 40 * n THEN "Needs Improvement"
    ELSE "Average"
RecommendationOf(t, p, n) ==
    IF p < 60 * n THEN <<"Focus on ", t, " fundamentals">>
    ELSE IF p < 80 * n THEN <<"Practice more ", t, " problems">>
    ELSE <<"Maintain performance in ", t>>

\* C13: the report of a history that is not empty has topic_insights, with
\* an insight for each topic of the history whose status is "Good" for a
\* mean of 0.75 or more, "Needs Improvement" for a mean of 0.4 or less and
\* "Average" otherwise.
C13_TopicStatus ==
    Synthesized
        => /\ Has(result.value, "topic_insights")
           /\ \A t \in TopicsOf(arg) :
                  /\ Has(Entry("topic_insights"), t)
                  /\ Insight(t).status =
                         StatusOf(SumPercent(OfTopic(arg, t)), Len(OfTopic(arg, t)))

\* C14: the report of a history that is not empty gives each topic of the
\* history exactly one recommendation: the fundamentals text for a mean
\* below 0.6, the practice text for a mean from 0.6 and below 0.8, the
\* maintain text for a mean of 0.8 or more.
C14_TopicRecommendation ==
    Synthesized
        => /\ Has(result.value, "topic_insights")
           /\ \A t \in TopicsOf(arg) :
                  /\ Has(Entry("topic_insights"), t)
                  /\ Insight(t).recommendations =
                         <<RecommendationOf(t, SumPercent(OfTopic(arg, t)),
                                            Len(OfTopic(arg, t)))>>

\* C15: the weak_areas of the report of a history that is not empty are
\* the topics whose score is below 70, with priority "High" for a score
\* below 60 and "Medium" otherwise, and topics_needing_improvement is
\* their number.
C15_ReportWeakAreas ==
    Synthesized
        => /\ Has(result.value, "weak_areas")
           /\ Has(result.value, "topic_insights")
           /\ {area.topic : area \in Range(Entry("weak_areas"))} =
                  {t \in TopicsOf(arg) : FLt(Insight(t).score, FloatOfInt(70))}
           /\ \A area \in Range(Entry("weak_areas")) :
                  area.priority =
                      IF FLt(Insight(area.topic).score, FloatOfInt(60)) THEN "High" ELSE "Medium"
           /\ Get(Entry("overall_statistics"), "topics_needing_improvement") =
                  Len(Entry("weak_areas"))

\* C16: the uncovered_topics of the report of a history that is not empty
\* are the topics of NEET_TOPICS that are not topics of the history, in
\* the order of NEET_TOPICS.
C16_UncoveredTopics ==
    Synthesized
        => /\ Has(result.value, "uncovered_topics")
           /\ Entry("uncovered_topics") =
                  SelectSeq(NEET_TOPICS, LAMBDA t : t \notin TopicsOf(arg))

\* C17: in the report of a history that is not empty, average_accuracy is
\* the mean of the accuracies of all quizzes, as a percentage of two
\* places, and total_quizzes is the number of quizzes.
C17_OverallAverage ==
    Synthesized
        => /\ Has(result.value, "overall_statistics")
           /\ Get(Entry("overall_statistics"), "total_quizzes") = Len(arg)
           /\ Get(Entry("overall_statistics"), "average_accuracy") =
                  round(times_100(MeanOf([i \in 1..Len(arg) |-> FractionOf(arg[i])])), 2)

(***************************************************************************)
(* Properties of the accuracies the components read.                       *)
(***************************************************************************)
InUnitInterval(x) == ~x.neg /\ FLe(x, FloatOfInt(1))

\* C20: the accuracy the PerformanceAnalyzer reads from each quiz of a
\* history, every per-topic mean and every trend value lie in [0,1].
C20_AccuraciesInUnitInterval ==
    Analyzed
        => /\ \A i \in 1..Len(arg) : InUnitInterval(accuracy_fraction(arg[i]).value)
           /\ \A i \in 1..Len(result.value.topic_wise_accuracy) :
                  InUnitInterval(result.value.topic_wise_accuracy[i][2])
           /\ \A i \in 1..Len(result.value.improvement_trends) :
                  \A x \in Range(result.value.improvement_trends[i][2]) : InUnitInterval(x)

(***************************************************************************)
(* Properties of the features of a performance.                            *)
(***************************************************************************)
\* C21: the features _extract_features returns for a performance of the
\* PerformanceAnalyzer are four defined numbers, none of them a nan, also
\* when no topic of the performance has a trend of two values or more.
C21_FeaturesDefined ==
    (op = "_extract_features" /\ result.ok)
        => /\ Len(result.value) = 4
           /\ \A k \in 1..Len(result.value) : ~IsNaN(result.value[k])

(***************************************************************************)
(* Properties of the request handlers.                                     *)
(***************************************************************************)
\* The history the handlers hand to the PerformanceAnalyzer for a request:
\* the user's processed quizzes, followed by the processed current
\* submission when there is one.
Fetched(request) == get_historical_quiz_data(request.api_endpoint, request.user_id)
Current(request) == get_current_quiz_submission(request.quiz_submission, request.user_id)
Normalized(request) ==
    LET processed == process_historical_data(Fetched(request).value).res
        current == preprocess_quiz_submission(Current(request).value)
    IN  IF Current(request).value = PyNone THEN processed
        ELSE IF ~processed.ok THEN processed
        ELSE IF ~current.ok THEN current
        ELSE Return(Append(processed.value, current.value))
Aggregated(request) == analyze_student_performance(Normalized(request).value)

\* C22: when the user's history holds a valid submission and normalization
\* and aggregation both succeeded, GET /analysis answers 200 with the
\* topic_wise_accuracy, weak_areas and improvement_trends of the user.
C22_AnalysisSucceeds ==
    (/\ op = "analyze_performance"
     /\ Fetched(arg).ok /\ Current(arg).ok
     /\ Normalized(arg).ok /\ Normalized(arg).value # <<>>
     /\ Aggregated(arg).ok)
        => /\ result.status_code = 200
           /\ result.body.topic_wise_accuracy = Aggregated(arg).value.topic_wise_accuracy
           /\ result.body.weak_areas = Aggregated(arg).value.weak_areas
           /\ result.body.improvement_trends = Aggregated(arg).value.improvement_trends

\* The data source has nothing for the user of a request: no quiz in
\* api_endpoint.json and, for the handlers that read it, no submission of
\* the user in quiz_submission.json.  get_insights and the predictions
\* handler do not read quiz_submission.json and answer the same for every
\* content of it.
NoQuizData(request) ==
    /\ Fetched(request).ok
    /\ Fetched(request).value = <<>>
    /\ "quiz_submission" \in DOMAIN request
           => Current(request).ok /\ Current(request).value = PyNone
Handlers == {"analyze_performance", "get_insights", "predictions", "get_visualizations"}

\* C23: a request of a user for whom the data source has no historical
\* record and no current submission is answered with status 404 by each of
\* the four handlers.
C23_NotFoundAnswered ==
    (op \in Handlers /\ NoQuizData(arg)) => result.status_code = 404

(***************************************************************************)
(* Properties of the ChartGenerator.                                       *)
(***************************************************************************)
\* C24: for the improvement trends of a performance,
\* generate_improvement_chart returns, and row k of its data holds for a
\* topic exactly the k-th value of the topic's trend as a percentage: every
\* trend value has its row, and no row holds a topic beyond its trend.
C24_ChartHoldsEveryTrendValue ==
    op = "generate_improvement_chart"
        => /\ result.ok
           /\ \A i \in 1..Len(arg) : \A k \in 1..Len(arg[i][2]) :
                  /\ k <= Len(result.value.data)
                  /\ Has(result.value.data[k], arg[i][1])
                  /\ Get(result.value.data[k], arg[i][1])
                         = round(times_100(arg[i][2][k]), 2)
           /\ \A k \in 1..Len(result.value.data) : \A i \in 1..Len(arg) :
                  Has(result.value.data[k], arg[i][1]) => k <= Len(arg[i][2])

====
